---- MODULE Spec2Model ----
(***************************************************************************)
(* Task-state orchestration of the Slack video summary pipeline.           *)
(*                                                                         *)
(*   Ingress Adapter          apps/webhook-vercel/.../slack/events/route.ts *)
(*   direct-upload ingress    apps/webhook-vercel/.../slack-intake/route.ts *)
(*   insert trigger           supabase/migrations/..._task_trigger.sql      *)
(*   trigger function         supabase/functions/process-video-task         *)
(*   Transfer Stage           unnamed/part_001                              *)
(*   Processing Orchestrator  apps/webhook-vercel/.../process-task/route.ts *)
(*   Notification Adapter     apps/webhook-vercel/.../slack/notify/route.ts *)
(*                                                                         *)
(* Every handler is a short-lived request handler.  A handler is cut into  *)
(* one action per access to shared state (the task table, the bucket):     *)
(* calls to services that hold no state of the model (speech-to-text,      *)
(* summarization, page creation) are folded into the action of the table   *)
(* write that follows them, their outcome drawn with \E.                   *)
(*                                                                         *)
(* Environment of Spec: the task table applies every update and insert it  *)
(* is sent (an update of a missing row changes nothing, an insert of an    *)
(* existing id is refused by the primary key); every other external call   *)
(* may fail.  One invocation of each handler is in flight at a time: tasks *)
(* share nothing but the table and the bucket, both keyed by task.         *)
(***************************************************************************)
EXTENDS Integers, Sequences, FiniteSets, TLC

VARIABLES
    rows,       \* transcription_tasks: task id -> row, or NoRow
    objects,    \* keys of the objects held by the bucket 'videos'
    nextId,     \* the next identifier uuidv4 / uuid_generate_v4 hands out
    netQueue,   \* requests net.http_post has queued for process-video-task
    lastReq,    \* the last request the Ingress Adapter handled
    lastResp,   \* and its response
    reqTick,    \* flips at every request the Ingress Adapter handles
    xfer,       \* the Transfer Stage invocation in flight
    xferRuns,   \* task id -> number of Transfer Stage invocations so far
    pvt,        \* the process-video-task invocation in flight
    orch,       \* the Processing Orchestrator invocation in flight
    posted,     \* task id -> number of messages posted to the operator channel
    channel,    \* the text of the last message posted to it, "" before any
    storeUp     \* the table applies updates (TRUE) or answers them with an error

vars == <<rows, objects, nextId, netQueue, lastReq, lastResp, reqTick,
          xfer, xferRuns, pvt, orch, posted, channel, storeUp>>

----------------------------------------------------------------------------
(* Bounds *)

MaxTasks == 2
MaxFiles == 2
MaxTransferRuns == 2

TaskIds == 1..MaxTasks
FileIds == 1..MaxFiles

----------------------------------------------------------------------------
(* Values *)

Null     == "null"        \* null / undefined of a text column
NoPath   == Null          \* null storage_path
NoPages  == Null          \* null notion_page_id
NoRow    == [status |-> "no_row"]
NoTask   == 0
NoFile   == 0

\* The statuses of the task state machine, by the names the code writes.
Chain == <<"upload_pending", "uploaded", "processing_in_vercel",
           "transcribed_in_vercel", "summarized_in_vercel", "completed">>

ChainStatus == {Chain[i] : i \in 1..Len(Chain)}

Rank(s) == CHOOSE i \in 1..Len(Chain) : Chain[i] = s

\* failed-class statuses
FailedClass == {"failed_in_vercel", "webhook_failed", "function_error"}

FailureStatus == {"upload_failed"} \cup FailedClass

----------------------------------------------------------------------------
(* The task table *)

\* A column set by an update keeps the update's value, every other column
\* its own (PostgREST .update(updates).eq('id', taskId)).  An update the
\* table answers with an error changes nothing; every caller only logs it.
Merge(row, updates) ==
    [f \in DOMAIN row |-> IF f \in DOMAIN updates THEN updates[f] ELSE row[f]]

\* An update that clears the result columns it does not name.
StoreReplace(table, taskId, updates) ==
    IF storeUp /\ taskId \in DOMAIN table /\ table[taskId] # NoRow
    THEN [table EXCEPT ![taskId] =
            Merge([@ EXCEPT !.transcription_result = Null, !.summary_result = Null],
                  updates)]
    ELSE table

StoreUpdate(table, taskId, updates) ==
    IF storeUp /\ taskId \in DOMAIN table /\ table[taskId] # NoRow
    THEN [table EXCEPT ![taskId] = Merge(@, updates)]
    ELSE table

\* The columns of a row; an insert leaves the columns it does not name null.
BlankRow ==
    [status |-> "pending", storage_path |-> NoPath, error_message |-> Null,
     transcription_result |-> Null, summary_result |-> Null,
     notion_page_id |-> NoPages, processed_at |-> Null,
     slack_file_id |-> NoFile, slack_download_url |-> Null,
     mimetype |-> <<>>, filetype |-> Null,
     original_file_name |-> Null, meeting_date |-> Null,
     consultant_name |-> Null, client_name |-> Null]

\* after insert ... for each row: net.http_post to process-video-task with
\* row_to_json(new) as the record.
\* A trigger that posts a storage path for every row, set or not.
handle_new_task_with_path(queue, id, new) ==
    queue \cup {[id |-> id, storage_path |-> "videos/" \o ToString(id) \o "_upload"]}

handle_new_transcription_task(queue, id, new) ==
    queue \cup {[id |-> id, storage_path |-> new.storage_path]}

RowIds == {t \in TaskIds : rows[t] # NoRow}

----------------------------------------------------------------------------
(* Text: strings, character by character *)

\* The patterns of the parsers are written in kanji and kana, which a
\* string of this module cannot hold.  An upper-case letter stands for
\* each: Y, M, D for the year, month and day marks of a date, DH for the
\* date label, C and CN, TS and T for the four consultant labels (each
\* longer one the shorter with a suffix), K and KN, GN, AN and G for the
\* five client labels.  ':' stands for both colons.  Names and other words
\* are in lower case.
DigitChars == <<"0", "1", "2", "3", "4", "5", "6", "7", "8", "9">>

Digits == {DigitChars[i] : i \in 1..10}

\* s.charAt(i - 1), the empty string past either end
CharAt(s, i) == IF i \in 1..Len(s) THEN SubSeq(s, i, i) ELSE ""

\* s.substring(i - 1)
From(s, i) == IF i > Len(s) THEN "" ELSE SubSeq(s, i, Len(s))

DigitValue(c) == (CHOOSE i \in 1..10 : DigitChars[i] = c) - 1

\* The number of characters from position i on that are all in chars.
Run(s, i, chars) ==
    CHOOSE n \in 0..Len(s) :
        /\ CharAt(s, i + n) \notin chars
        /\ \A k \in 0..(n - 1) : CharAt(s, i + k) \in chars

RECURSIVE ValueOf(_, _)
ValueOf(s, n) ==
    IF n = 0 THEN 0 ELSE ValueOf(s, n - 1) * 10 + DigitValue(CharAt(s, n))

NaN == -1

\* parseInt(s, 10) of a string that begins with neither a blank nor a sign:
\* the number its leading digits write, NaN when it has none.
parseInt(s) ==
    LET n == Run(s, 1, Digits) IN IF n = 0 THEN NaN ELSE ValueOf(s, n)

\* String(n), `${n}` of a number that is not negative
RECURSIVE DecimalString(_)
DecimalString(n) ==
    IF n < 10 THEN DigitChars[n + 1]
    ELSE DecimalString(n \div 10) \o DigitChars[(n % 10) + 1]

\* s.padStart(2, '0')
padStart2(s) == IF Len(s) < 2 THEN "0" \o s ELSE s

\* s.replace(/Y|M/g, '/').replace(/D/g, '')
RECURSIVE ReplaceMarks(_, _)
ReplaceMarks(s, i) ==
    IF i > Len(s) THEN ""
    ELSE LET c == CharAt(s, i)
         IN  (IF c \in {"Y", "M"} THEN "/" ELSE IF c = "D" THEN "" ELSE c)
                 \o ReplaceMarks(s, i + 1)

\* s.split('/'), from position i on with the part begun so far
RECURSIVE SplitFrom(_, _, _)
SplitFrom(s, i, part) ==
    IF i > Len(s) THEN <<part>>
    ELSE IF CharAt(s, i) = "/" THEN <<part>> \o SplitFrom(s, i + 1, "")
    ELSE SplitFrom(s, i + 1, part \o CharAt(s, i))

Whitespace == {" ", "\n", "\t"}

\* s.trim()
RECURSIVE TrimEnd(_)
TrimEnd(s) ==
    IF Len(s) > 0 /\ CharAt(s, Len(s)) \in Whitespace
    THEN TrimEnd(SubSeq(s, 1, Len(s) - 1)) ELSE s

Trim(s) == TrimEnd(From(s, 1 + Run(s, 1, Whitespace)))

\* s begins with prefix at position i
StartsAt(s, i, prefix) ==
    /\ i + Len(prefix) - 1 <= Len(s)
    /\ SubSeq(s, i, i + Len(prefix) - 1) = prefix

\* /(\d{4})[\/\-\.Y](\d{1,2})[\/\-\.M](\d{1,2})D?/ tried at position i: the
\* length of the match, 0 for none.  \d{1,2} takes two digits where the
\* rest of the pattern still matches after them.

\* (\d{1,2})D? at position j, where digits digits stand
DayMatchLen(s, i, j, digits) ==
    IF digits = 0 THEN 0
    ELSE IF digits = 1 THEN (j + 1 - i) + (IF CharAt(s, j + 1) = "D" THEN 1 ELSE 0)
    ELSE (j + 2 - i) + (IF CharAt(s, j + 2) = "D" THEN 1 ELSE 0)

\* The match from the month's m digits on
AfterMonth(s, i, m) ==
    IF m = 0 THEN 0 ELSE DayMatchLen(s, i, i + 6 + m, Run(s, i + 6 + m, Digits))

\* (\d{1,2})[\/\-\.M] at position i + 5, where digits digits stand: the
\* number of digits the month takes, 0 for no match
MonthDigits(s, i, digits) ==
    IF digits >= 2 /\ CharAt(s, i + 7) \in {"/", "-", ".", "M"} THEN 2
    ELSE IF digits >= 1 /\ CharAt(s, i + 6) \in {"/", "-", ".", "M"} THEN 1
    ELSE 0

DateMatchLen(s, i) ==
    IF Run(s, i, Digits) < 4 \/ CharAt(s, i + 4) \notin {"/", "-", ".", "Y"} THEN 0
    ELSE AfterMonth(s, i, MonthDigits(s, i, Run(s, i + 5, Digits)))

NoMatch == [index |-> 0, text |-> "", group |-> ""]

\* The least position with a match in lens, the lengths of the matches by
\* position; 0 for none.
Leftmost(lens) ==
    IF \A i \in DOMAIN lens : lens[i] = 0 THEN 0
    ELSE CHOOSE i \in DOMAIN lens : lens[i] > 0 /\ \A l \in DOMAIN lens : lens[l] > 0 => i <= l

\* The match of the date pattern at position i, of length len
DateMatchAt(s, i, len) ==
    IF i = 0 THEN NoMatch
    ELSE [index |-> i, text |-> SubSeq(s, i, i + len[i] - 1), group |-> SubSeq(s, i, i + 3)]

LeftmostDateMatch(s, lens) == DateMatchAt(s, Leftmost(lens), lens)

\* text.match(the date pattern): the leftmost match, with its first group
DateMatch(s) == LeftmostDateMatch(s, [i \in 1..Len(s) |-> DateMatchLen(s, i)])

\* [^stops]: the characters of s that are not in stops
OtherChars(s, stops) == {CharAt(s, k) : k \in 1..Len(s)} \ stops

\* The group at i + k for the greatest k that leaves it a character, runs
\* being the lengths of the group by k; "" for no match.
GroupOf(s, i, runs) ==
    IF \A k \in DOMAIN runs : runs[k] = 0 THEN ""
    ELSE LET k == CHOOSE a \in DOMAIN runs :
                      runs[a] > 0 /\ \A b \in DOMAIN runs : runs[b] > 0 => a >= b
         IN  SubSeq(s, i + k, i + k + runs[k] - 1)

\* label[seps]*([^stops]+) tried at position i, the label read: the
\* separators give back what the group needs, one at a time.  The value is
\* the group, "" for no match.
GroupAfter(s, i, n, stops) ==
    GroupOf(s, i, [k \in 0..n |-> Run(s, i + k, OtherChars(s, stops))])

LabelledAt(s, i, label, seps, stops) ==
    IF ~StartsAt(s, i, label) THEN ""
    ELSE GroupAfter(s, i + Len(label), Run(s, i + Len(label), seps), stops)

\* The group of the first of the matches groups, which are by position and
\* label: the leftmost, and at one position the first label.
FirstGroup(groups) ==
    IF \A ik \in DOMAIN groups : groups[ik] = "" THEN ""
    ELSE groups[CHOOSE a \in DOMAIN groups :
                    /\ groups[a] # ""
                    /\ \A b \in DOMAIN groups :
                          groups[b] # "" => a[1] < b[1] \/ (a[1] = b[1] /\ a[2] <= b[2])]

\* text.match(/(?:l1|l2|...)[seps]*([^stops]+)/): the group of the leftmost
\* match, at which the labels are tried in their order.
FirstLabelled(s, labels, seps, stops) ==
    FirstGroup([ik \in (1..Len(s)) \X (1..Len(labels)) |->
                   LabelledAt(s, ik[1], labels[ik[2]], seps, stops)])

\* The text that comes with a file: a date, a consultant and a client, each
\* on a line of its own.
TypicalText == "2024/5/17\nT:yamada\nG:acme"

\* Date texts of the year 2024: in the forms with slashes, with hyphens and
\* with the marks of year, month and day; months and days of one and two
\* digits, in and out of the calendar's range; with the date label or bare.
DateForms == {"slashes", "hyphens", "marks"}
Months == {"5", "05", "12", "13"}
Days == {"7", "17", "45"}

DateText(form, labelled, month, day) ==
    (IF labelled THEN "DH: " ELSE "")
        \o "2024"
        \o (CASE form = "slashes" -> "/" [] form = "hyphens" -> "-" [] form = "marks" -> "Y")
        \o month
        \o (CASE form = "slashes" -> "/" [] form = "hyphens" -> "-" [] form = "marks" -> "M")
        \o day
        \o (IF form = "marks" THEN "D" ELSE "")

DateTexts ==
    {DateText(form, labelled, month, day) :
        form \in DateForms, labelled \in BOOLEAN, month \in Months, day \in Days}

\* Texts without a date, without names, with a label and no name, with
\* names and a date on one line.
OtherTexts ==
    {"", "hello", "T: yamada", "T:", "TS: yamada G acme", "CN: suzuki\nKN: acme",
     "T: yamada G: acme 2024Y5M17D", TypicalText}

Texts == DateTexts \cup OtherTexts

----------------------------------------------------------------------------
(* Ingress Adapter: POST /api/slack/events *)

ReplayWindowSec == 300
HmacLen == 67            \* 'v0=' and the 64 hex digits of a sha256 digest
NoHeader == -1

NoChallenge == "none"
Challenges == {"challenge_a", "challenge_b"}

NoBody ==
    [type |-> "none", event_type |-> "none", file_id |-> NoFile, challenge |-> NoChallenge]

\* The parsed bodies: the handshake with its challenge, an event of another
\* type, a body without an event, and file_shared events.
Bodies ==
    {[type |-> "url_verification", event_type |-> "none", file_id |-> NoFile,
      challenge |-> c] : c \in Challenges}
    \cup {[type |-> "event_callback", event_type |-> "message", file_id |-> NoFile,
           challenge |-> NoChallenge],
          [type |-> "app_rate_limited", event_type |-> "none", file_id |-> NoFile,
           challenge |-> NoChallenge]}
    \cup {[type |-> "event_callback", event_type |-> "file_shared", file_id |-> f,
           challenge |-> NoChallenge] : f \in FileIds}

\* crypto.createHmac('sha256', key).update('v0:' + ts + ':' + body): the
\* digest is a function of the key, the timestamp and the raw body.
Hmac(key, ts, body) == [len |-> HmacLen, key |-> key, ts |-> ts, body |-> body]

NoSignature == [len |-> 0, key |-> "none", ts |-> NoHeader, body |-> NoBody]
ShortSignature == [len |-> 6, key |-> "none", ts |-> NoHeader, body |-> NoBody]

\* Request timestamp (seconds, NoHeader: header absent) and the reading of
\* Date.now() (milliseconds) when the request is handled, around the edge of
\* the replay window: 301 s, 300 s, 300.5 s and 0.5 s old.
Times ==
    {<<NoHeader, 1000000>>, <<699, 1000000>>, <<700, 1000000>>,
     <<700, 1000500>>, <<1000, 1000500>>}

\* What files.info answers for the file of the event.
\* comment is the file's initial_comment.comment, "" for a file without one.
NoFileInfo ==
    [ok |-> FALSE, url |-> FALSE, mimetype |-> <<>>, filetype |-> Null, comment |-> ""]

FileInfos ==
    {NoFileInfo,
     [ok |-> TRUE, url |-> FALSE, mimetype |-> <<"video", "mp4">>, filetype |-> "mp4",
      comment |-> ""],
     [ok |-> TRUE, url |-> TRUE, mimetype |-> <<"video", "quicktime">>, filetype |-> "mov",
      comment |-> TypicalText],
     [ok |-> TRUE, url |-> TRUE, mimetype |-> <<"audio", "mpeg">>, filetype |-> "mp3",
      comment |-> ""]}

\* The x-slack-signature header: absent, of another length, the digest of
\* this request, a digest under another key, the digest of another timestamp.
SignatureKinds == {"absent", "short", "signed", "forged", "replayed"}

SignatureOf(kind, ts, body) ==
    CASE kind = "absent"   -> NoSignature
      [] kind = "short"    -> ShortSignature
      [] kind = "signed"   -> Hmac("secret", ts, body)
      [] kind = "forged"   -> Hmac("other", ts, body)
      [] kind = "replayed" -> Hmac("secret", 1, body)

FileInfosFor(body) ==
    IF body.event_type = "file_shared" THEN FileInfos ELSE {NoFileInfo}

Requests ==
    {[timestamp |-> tm[1], nowMs |-> tm[2], body |-> b,
      signature |-> SignatureOf(k, tm[1], b), fileInfo |-> fi] :
        tm \in Times, b \in Bodies, k \in SignatureKinds, fi \in FileInfos}

AllRequests == {req \in Requests : req.fileInfo \in FileInfosFor(req.body)}

NoRequest ==
    [timestamp |-> NoHeader, nowMs |-> 0, body |-> NoBody,
     signature |-> NoSignature, fileInfo |-> NoFileInfo]

\* verifySlackRequest: "true", "false", or "throws" (crypto.timingSafeEqual
\* raises a RangeError on buffers of different length).
verifySlackRequest(req) ==
    IF req.signature = NoSignature \/ req.timestamp = NoHeader THEN "false"
    ELSE IF req.timestamp < (req.nowMs \div 1000) - ReplayWindowSec THEN "false"
    ELSE LET mySignature == Hmac("secret", req.timestamp, req.body)
         IN  IF mySignature.len # req.signature.len THEN "throws"
             ELSE IF mySignature = req.signature THEN "true" ELSE "false"

\* parseDateToISO(dateString) of the Ingress Adapter; Null for undefined
DateOfNumbers(numbers) ==
    IF \E k \in 1..3 : numbers[k] = NaN THEN Null
    ELSE DecimalString(numbers[1]) \o "-" \o padStart2(DecimalString(numbers[2]))
             \o "-" \o padStart2(DecimalString(numbers[3]))

\* if (parts.length === 3): year, month and day are parseInt of the parts
DateOfParts(parts) ==
    IF Len(parts) # 3 THEN Null
    ELSE DateOfNumbers([k \in 1..3 |-> parseInt(parts[k])])

parseDateToISO(dateString) ==
    IF dateString \in {Null, ""} THEN Null
    ELSE DateOfParts(SplitFrom(ReplaceMarks(dateString, 1), 1, ""))

ConsultantLabels == <<"CN", "C", "TS", "T">>
ClientLabels == <<"KN", "K", "GN", "AN", "G">>

NothingParsed == [meetingDate |-> Null, consultantName |-> Null, clientName |-> Null]

\* if (match && match[1]) result.name = match[1].trim()
TrimmedGroup(group) == IF group = "" THEN Null ELSE Trim(group)

\* A parser that takes the matched text for the date as it stands.
parseSlackMessageTextUnnormalized(text) ==
    IF text \in {Null, ""} THEN NothingParsed
    ELSE [meetingDate |-> TrimmedGroup(DateMatch(text).text),
          consultantName |-> Null, clientName |-> Null]

\* parseSlackMessageText(text) of the Ingress Adapter
parseSlackMessageText(text) ==
    IF text \in {Null, ""} THEN NothingParsed
    ELSE [meetingDate |-> parseDateToISO(DateMatch(text).text),
          consultantName |->
              TrimmedGroup(FirstLabelled(text, ConsultantLabels,
                                         {":"} \cup Whitespace, Whitespace)),
          clientName |->
              TrimmedGroup(FirstLabelled(text, ClientLabels,
                                         {":"} \cup Whitespace, Whitespace))]

\* parseSlackMessageText over the texts of the model
ParsedMessage == [messageText \in Texts |-> parseSlackMessageText(messageText)]

uuidv4 == nextId

\* A check of the metadata that takes any file the lookup returned.
HasFile(fileData) == fileData.ok

\* fileData.url_private_download is set
HasDownloadUrl(fileData) == fileData.url

\* A row like taskToInsert's, with the status 'pending' in place of
\* 'upload_pending'.
\* meeting_date, consultant_name and client_name of the row to insert
ParsedColumns(parsed) ==
    [meeting_date |-> parsed.meetingDate, consultant_name |-> parsed.consultantName,
     client_name |-> parsed.clientName]

taskToInsertPending(taskId, fileId, fileData) ==
  Merge(
    [BlankRow EXCEPT !.status = "pending",
                     !.original_file_name = "name",
                     !.slack_file_id = fileId,
                     !.slack_download_url = "url_private_download",
                     !.mimetype = fileData.mimetype,
                     !.filetype = fileData.filetype],
    ParsedColumns(ParsedMessage[fileData.comment]))

taskToInsert(taskId, fileId, fileData) ==
  Merge(
    [BlankRow EXCEPT !.original_file_name = "name",
                     !.slack_file_id = fileId,
                     !.slack_download_url = "url_private_download",
                     !.mimetype = fileData.mimetype,
                     !.filetype = fileData.filetype,
                     !.status = "upload_pending"],
    ParsedColumns(ParsedMessage[fileData.comment]))

\* The response, with what the handler did on the way: whether it parsed the
\* raw body and how many files.info lookups it made.
Response(status, taskId, parsed, lookups) ==
    [status |-> status, taskId |-> taskId, parsed |-> parsed, lookups |-> lookups,
     challenge |-> NoChallenge]

\* A handshake answered without its challenge.
ChallengeDropped(body) == Response(200, NoTask, TRUE, 0)

\* NextResponse.json({ challenge: data.challenge })
ChallengeResponse(body) ==
    [Response(200, NoTask, TRUE, 0) EXCEPT !.challenge = body.challenge]

\* The handler's outcome: the response, and the row it inserts (NoRow: none).
EventsOutcome(req) ==
    LET v == verifySlackRequest(req) IN
    IF v = "throws" THEN [resp |-> Response(500, NoTask, FALSE, 0), row |-> NoRow]
    ELSE IF v = "false" THEN [resp |-> Response(403, NoTask, FALSE, 0), row |-> NoRow]
    ELSE IF req.body.type = "url_verification"
         THEN [resp |-> ChallengeResponse(req.body), row |-> NoRow]
    ELSE IF req.body.event_type # "file_shared"
         THEN [resp |-> Response(200, NoTask, TRUE, 0), row |-> NoRow]
    ELSE IF ~req.fileInfo.ok
         THEN [resp |-> Response(500, NoTask, TRUE, 1), row |-> NoRow]
    ELSE IF ~HasDownloadUrl(req.fileInfo)
         THEN [resp |-> Response(400, NoTask, TRUE, 1), row |-> NoRow]
    ELSE LET taskId == uuidv4 IN
         IF taskId \notin TaskIds \/ rows[taskId] # NoRow
         THEN [resp |-> Response(500, NoTask, TRUE, 1), row |-> NoRow]
         ELSE [resp |-> Response(202, taskId, TRUE, 1),
               row |-> taskToInsert(taskId, req.body.file_id, req.fileInfo)]

SlackEventsPOST(req) ==
    /\ nextId <= MaxTasks
    /\ LET out == EventsOutcome(req) IN
        /\ lastReq' = req
        /\ lastResp' = out.resp
        /\ reqTick' = 1 - reqTick
        /\ IF out.row # NoRow
           THEN /\ rows' = [rows EXCEPT ![out.resp.taskId] = out.row]
                /\ netQueue' = handle_new_transcription_task(netQueue, out.resp.taskId, out.row)
                /\ nextId' = nextId + 1
           ELSE UNCHANGED <<rows, netQueue, nextId>>
    /\ UNCHANGED <<objects, xfer, xferRuns, pvt, orch, posted, channel, storeUp>>

----------------------------------------------------------------------------
(* Direct-upload ingress: POST /api/slack-intake *)

\* parseDateToISO(dateString) of the direct-upload ingress
intakeDateOfNumbers(numbers) ==
    IF \E k \in 1..3 : numbers[k] = NaN THEN Null
    ELSE DecimalString(numbers[1])
             \o "-" \o (IF numbers[2] < 10 THEN "0" ELSE "") \o DecimalString(numbers[2])
             \o "-" \o (IF numbers[3] < 10 THEN "0" ELSE "") \o DecimalString(numbers[3])

intakeDateOfParts(parts) ==
    IF Len(parts) # 3 THEN Null
    ELSE intakeDateOfNumbers([k \in 1..3 |-> parseInt(parts[k])])

intakeParseDateToISO(dateString) ==
    IF dateString \in {Null, ""} THEN Null
    ELSE intakeDateOfParts(SplitFrom(ReplaceMarks(dateString, 1), 1, ""))

\* The position of the date after the label DH at position i
DateAfterLabel(s, i) == i + 2 + Run(s, i + 2, {":"} \cup Whitespace)

\* The match of the labelled date pattern at position i, whose date is at
\* position j and of length len
LabelledDateMatchAt(s, i, j, len) ==
    IF i = 0 THEN NoMatch
    ELSE [index |-> i, text |-> SubSeq(s, i, j + len - 1),
          group |-> SubSeq(s, j, j + len - 1)]

LeftmostLabelledMatch(s, i, lens) ==
    LabelledDateMatchAt(s, i, DateAfterLabel(s, i), IF i = 0 THEN 0 ELSE lens[i])

LabelledMatchOf(s, lens) == LeftmostLabelledMatch(s, Leftmost(lens), lens)

\* /DH[:\s]*(the date pattern)/: the group of the leftmost match
LabelledDateMatch(s) ==
    LabelledMatchOf(s, [i \in 1..Len(s) |->
                           IF StartsAt(s, i, "DH") THEN DateMatchLen(s, DateAfterLabel(s, i))
                           ELSE 0])

\* match[1].includes(':') ? match[1].split(/[:\s]/).pop() : match[1], for
\* a group of either date pattern, which holds no colon
IntakeDateStr(match) == match.group

\* The first of the parsed dates that is one, then the date of the search
\* of the whole text
FirstParsed(parsed) ==
    IF parsed[1] # Null THEN parsed[1]
    ELSE IF parsed[2] # Null THEN parsed[2]
    ELSE parsed[3]

\* The strings parseDateToISO is given: the groups of the two dateRegexes,
\* then the match of the general pattern
DateStrings(match, labelled) ==
    <<IntakeDateStr(match), IntakeDateStr(labelled), match.text>>

ParsedDates(strings) == FirstParsed([k \in 1..3 |-> intakeParseDateToISO(strings[k])])

\* The loop over dateRegexes, then the search of the whole text
IntakeMeetingDate(text) ==
    ParsedDates(DateStrings(DateMatch(text), LabelledDateMatch(text)))

\* if (match && match[1]) result.name = match[1].trim()
IntakeTrimmed(text, labels, k, group, next) ==
    IF group # "" THEN Trim(group) ELSE next

\* The loop over the keywords: new RegExp(`${keyword}[:\s]*([^\n\s]+)`),
\* in whose template literal \s is the letter s and \n a line break.
RECURSIVE IntakeLabelled(_, _, _)
IntakeLabelled(text, labels, k) ==
    IF k > Len(labels) THEN Null
    ELSE IntakeTrimmed(text, labels, k,
                       FirstLabelled(text, <<labels[k]>>, {":", "s"}, {"\n", "s"}),
                       IntakeLabelled(text, labels, k + 1))

\* parseSlackMessageText(text) of the direct-upload ingress
intakeParseSlackMessageText(text) ==
    IF text \in {Null, ""} THEN NothingParsed
    ELSE [meetingDate |-> IntakeMeetingDate(text),
          consultantName |-> IntakeLabelled(text, ConsultantLabels, 1),
          clientName |-> IntakeLabelled(text, ClientLabels, 1)]

\* parseSlackMessageText over the texts of the model
ParsedTextData == [formText \in Texts |-> intakeParseSlackMessageText(formText)]

\* `${Date.now()}_${Math.random()...}_${name}` under videos/: a name no
\* earlier upload has; the row's id is the table's uuid_generate_v4() default.
IntakePath(n) == "videos/" \o ToString(n) \o "_upload"

\* The requests the trigger can queue: the record of a row of either ingress.
QueueEntries ==
    UNION {{[id |-> t, storage_path |-> NoPath], [id |-> t, storage_path |-> IntakePath(t)]} :
              t \in TaskIds}

IntakeRow(fullStoragePath, text) ==
    Merge([BlankRow EXCEPT !.storage_path = fullStoragePath,
                           !.original_file_name = "name",
                           !.status = "uploaded"],
          ParsedColumns(ParsedTextData[text]))

\* A verified multipart request, carrying a file or not (hasFile) and the
\* form field text, whose storage write succeeds or not (storageOk).
SlackIntakePOST(hasFile, storageOk, text) ==
    /\ nextId <= MaxTasks
    /\ IF hasFile /\ storageOk
       THEN LET filePath == IntakePath(nextId)
                row == IntakeRow(filePath, text)
            IN  /\ objects' = objects \cup {filePath}
                /\ rows' = [rows EXCEPT ![nextId] = row]
                /\ netQueue' = handle_new_transcription_task(netQueue, nextId, row)
                /\ nextId' = nextId + 1
       ELSE UNCHANGED <<objects, rows, netQueue, nextId>>
    /\ UNCHANGED <<lastReq, lastResp, reqTick, xfer, xferRuns, pvt, orch, posted, channel, storeUp>>

\* Another name of the same form, of an upload whose row is never inserted
RejectedPath(n) == "videos/" \o ToString(n) \o "_upload_rejected"

\* A verified multipart request with a file whose storage write succeeds and
\* whose insert the table answers with an error: the handler answers 500
\* and leaves the object where it is.
SlackIntakePOSTRejected(text) ==
    /\ nextId <= MaxTasks
    /\ RejectedPath(nextId) \notin objects
    /\ objects' = objects \cup {RejectedPath(nextId)}
    /\ UNCHANGED <<rows, netQueue, nextId>>
    /\ UNCHANGED <<lastReq, lastResp, reqTick, xfer, xferRuns, pvt, orch, posted, channel, storeUp>>

----------------------------------------------------------------------------
(* Transfer Stage *)

XferIdle ==
    [pc |-> "idle", task |-> NoTask, mimetype |-> <<>>, filetype |-> Null,
     storagePath |-> NoPath, resp |-> 0]

\* fileExtension of the payload's mimetype <<type, subtype>> and filetype.
FileExtension(mimetype, filetype) ==
    LET byType ==
            IF mimetype # <<>> /\ mimetype[1] = "video" THEN mimetype[2]
            ELSE IF mimetype # <<>> /\ mimetype[1] = "audio"
                 THEN (IF mimetype[2] = "mpeg" THEN "mp3" ELSE mimetype[2])
                 ELSE (IF filetype # Null THEN filetype ELSE "dat")
    IN  IF byType = "quicktime" THEN "mov" ELSE byType

\* A key that leaves the extension out
StoragePathOfTask(taskId, mimetype, filetype) == "uploads/" \o ToString(taskId)

\* storagePath = `uploads/${taskId}.${fileExtension}`
StoragePath(taskId, mimetype, filetype) ==
    "uploads/" \o ToString(taskId) \o "." \o FileExtension(mimetype, filetype)

\* updateTaskStatus(supabase, taskId, status, updatePayload) of the stage
\* An update that also stamps processed_at.
updateTaskStatusStamping(table, taskId, status, updatePayload) ==
    StoreUpdate(table, taskId,
        [f \in {"status", "processed_at"} \cup DOMAIN updatePayload |->
            IF f = "status" THEN status
            ELSE IF f = "processed_at" THEN "now" ELSE updatePayload[f]])

updateTaskStatus(table, taskId, status, updatePayload) ==
    StoreUpdate(table, taskId,
        [f \in {"status"} \cup DOMAIN updatePayload |->
            IF f = "status" THEN status ELSE updatePayload[f]])

\* A failure payload that carries no message.
DownloadFailedPayloadSilent == [error_message |-> Null]

DownloadFailedPayload == [error_message |-> "Slack download failed"]
UploadFailedPayload == [error_message |-> "Supabase Storage upload failed"]
UnexpectedPayload == [error_message |-> "unexpected error"]
\* A success payload that leaves error_message as it was.
UploadedPayloadKeepingError(storagePath) == [storage_path |-> storagePath]

UploadedPayload(storagePath) == [storage_path |-> storagePath, error_message |-> Null]

\* An invocation with the payload {taskId, slack_download_url, mimetype,
\* filetype, original_file_name} of an ingested row.  Nothing in the
\* repository issues it: it is the operator's (or a platform hook's) call.
TransferInvoke(t) ==
    /\ xfer.pc \in {"idle", "done"}
    /\ rows[t] # NoRow
    /\ rows[t].slack_download_url # Null
    /\ xferRuns[t] < MaxTransferRuns
    /\ xfer' = [XferIdle EXCEPT !.pc = "fetch", !.task = t,
                                !.mimetype = rows[t].mimetype,
                                !.filetype = rows[t].filetype]
    /\ xferRuns' = [xferRuns EXCEPT ![t] = @ + 1]
    /\ UNCHANGED <<rows, objects, nextId, netQueue, lastReq, lastResp, reqTick,
                   pvt, orch, posted, channel, storeUp>>

\* fetch(slack_download_url) and the branch on its response
TransferFetch(outcome) ==
    /\ xfer.pc = "fetch"
    /\ IF outcome = "ok"
       THEN /\ xfer' = [xfer EXCEPT !.pc = "upload",
                          !.storagePath = StoragePath(xfer.task, xfer.mimetype,
                                                      xfer.filetype)]
            /\ rows' = rows
       ELSE /\ rows' = updateTaskStatus(rows, xfer.task, "upload_failed",
                          IF outcome = "throws" THEN UnexpectedPayload
                          ELSE DownloadFailedPayload)
            /\ xfer' = [xfer EXCEPT !.pc = "done", !.resp = 500]
    /\ UNCHANGED <<objects, nextId, netQueue, lastReq, lastResp, reqTick,
                   xferRuns, pvt, orch, posted, channel, storeUp>>

\* An upload with upsert: true, which writes over an object of the same key.
TransferUploadUpserting(serviceOk) ==
    /\ xfer.pc = "upload"
    /\ IF serviceOk
       THEN /\ objects' = objects \cup {xfer.storagePath}
            /\ xfer' = [xfer EXCEPT !.pc = "uploaded"]
            /\ rows' = rows
       ELSE /\ rows' = updateTaskStatus(rows, xfer.task, "upload_failed", UploadFailedPayload)
            /\ xfer' = [xfer EXCEPT !.pc = "done", !.resp = 500]
            /\ objects' = objects
    /\ UNCHANGED <<nextId, netQueue, lastReq, lastResp, reqTick, xferRuns, pvt, orch, posted, channel, storeUp>>

\* storage.from('videos').upload(storagePath, body, {upsert: false})
TransferUpload(serviceOk) ==
    /\ xfer.pc = "upload"
    /\ IF serviceOk /\ xfer.storagePath \notin objects
       THEN /\ objects' = objects \cup {xfer.storagePath}
            /\ xfer' = [xfer EXCEPT !.pc = "uploaded"]
            /\ rows' = rows
       ELSE /\ rows' = updateTaskStatus(rows, xfer.task, "upload_failed", UploadFailedPayload)
            /\ xfer' = [xfer EXCEPT !.pc = "done", !.resp = 500]
            /\ objects' = objects
    /\ UNCHANGED <<nextId, netQueue, lastReq, lastResp, reqTick, xferRuns, pvt, orch, posted, channel, storeUp>>

TransferWriteUploaded ==
    /\ xfer.pc = "uploaded"
    /\ rows' = updateTaskStatus(rows, xfer.task, "uploaded", UploadedPayload(xfer.storagePath))
    /\ xfer' = [xfer EXCEPT !.pc = "done", !.resp = 200]
    /\ UNCHANGED <<objects, nextId, netQueue, lastReq, lastResp, reqTick,
                   xferRuns, pvt, orch, posted, channel, storeUp>>

----------------------------------------------------------------------------
(* Trigger function: process-video-task *)

PvtIdle == [pc |-> "idle", task |-> NoTask, msg |-> Null, resp |-> 0]

\* updateTaskStatus(supabase, taskId, status, errorMessage?) of the function:
\* error_message is part of the update only when a message is given.
pvtUpdateTaskStatus(table, taskId, status, errorMessage) ==
    StoreUpdate(table, taskId,
        IF errorMessage # Null
        THEN [status |-> status, error_message |-> errorMessage]
        ELSE [status |-> status])

----------------------------------------------------------------------------
(* Processing Orchestrator: POST /api/process-task *)

\* parseDateToISO(dateString) of the orchestrator
taskDateOfNumbers(numbers) ==
    IF \E k \in 1..3 : numbers[k] = NaN THEN Null
    ELSE DecimalString(numbers[1])
             \o "-" \o (IF numbers[2] < 10 THEN "0" ELSE "") \o DecimalString(numbers[2])
             \o "-" \o (IF numbers[3] < 10 THEN "0" ELSE "") \o DecimalString(numbers[3])

taskDateOfParts(parts) ==
    IF Len(parts) # 3 THEN Null
    ELSE taskDateOfNumbers([k \in 1..3 |-> parseInt(parts[k])])

taskParseDateToISO(dateString) ==
    IF dateString \in {Null, ""} THEN Null
    ELSE taskDateOfParts(SplitFrom(ReplaceMarks(dateString, 1), 1, ""))

\* interface StructuredSummary
SummaryFields ==
    <<"meeting_title", "meeting_basics", "meeting_objective_agenda",
      "discussions_decisions", "next_schedule", "other_notes">>

FieldNames == {SummaryFields[i] : i \in 1..Len(SummaryFields)}

BodyFields == FieldNames \ {"meeting_title"}

NoSummaryObject == [f \in FieldNames |-> Null]

\* A summary of short field texts.
TypicalSummary == [f \in FieldNames |-> "text of " \o f]

RECURSIVE Repeated(_, _)
Repeated(s, n) ==
    IF n = 0 THEN ""
    ELSE LET half == Repeated(s, n \div 2)
         IN  half \o half \o (IF n % 2 = 1 THEN s ELSE "")

\* summary_text.substring(0, 300), and '...' after it where the text is longer
PreviewLen == 300

Preview(summary_text) ==
    IF Len(summary_text) > PreviewLen
    THEN SubSeq(summary_text, 1, PreviewLen) \o "..."
    ELSE summary_text

\* The length of a field text that is longer than the notification preview.
LongLen == 320

LongText(f) == f \o ":" \o Repeated("x", LongLen)

LongSummary == [f \in FieldNames |-> LongText(f)]

\* The summary objects the summarization service answers with: every field
\* long, the title or a body field empty, every field empty.
SummaryObjects ==
    {LongSummary, [f \in FieldNames |-> ""],
     [LongSummary EXCEPT !.meeting_title = ""],
     [LongSummary EXCEPT !.other_notes = ""]}

\* JSON.stringify(structuredSummary): the fields in the order of their keys
RECURSIVE StringifyFrom(_, _)
StringifyFrom(object, i) ==
    IF i > Len(SummaryFields) THEN ""
    ELSE (IF i > 1 THEN "," ELSE "")
         \o "\"" \o SummaryFields[i] \o "\":\"" \o object[SummaryFields[i]] \o "\""
         \o StringifyFrom(object, i + 1)

JSONStringify(object) == "{" \o StringifyFrom(object, 1) \o "}"

Destinations == {1, 2, 3}

\* v is a value JavaScript takes for true: a non-empty string.
Truthy(v) == v \notin {Null, ""}

\* The properties of a page no destination holds.
NoPage ==
    [created |-> FALSE, title |-> Null, date |-> Null, consultant |-> Null,
     client |-> Null, body |-> [f \in BodyFields |-> Null]]

\* A createNotionPage that publishes the preview of every text.
createNotionPageTruncating(d, meetingDate, consultantName, clientName, summaryData) ==
    [created |-> TRUE,
     title |-> Preview(summaryData.meeting_title),
     date |-> IF Truthy(meetingDate) THEN meetingDate ELSE Null,
     consultant |-> IF d \in {1, 3} /\ Truthy(consultantName) THEN consultantName ELSE Null,
     client |-> IF d \in {1, 2} /\ Truthy(clientName) THEN clientName ELSE Null,
     body |-> [f \in BodyFields |-> Preview(summaryData[f])]]

\* createNotionPage(dbId, meetingDate, consultantName, clientName,
\* summaryData): the properties of the page it asks destination d for.
\* A property the code leaves out is Null.  SAMA and DATE_UNKNOWN stand for
\* the two literals of the fallback title.
createNotionPage(d, meetingDate, consultantName, clientName, summaryData) ==
    [created |-> TRUE,
     title |-> IF summaryData.meeting_title # "" THEN summaryData.meeting_title
               ELSE (IF Truthy(clientName) THEN clientName ELSE "N/A") \o "SAMA "
                    \o (IF Truthy(meetingDate) THEN meetingDate ELSE "DATE_UNKNOWN"),
     date |-> IF Truthy(meetingDate) THEN meetingDate ELSE Null,
     consultant |-> IF d \in {1, 3} /\ Truthy(consultantName) THEN consultantName ELSE Null,
     client |-> IF d \in {1, 2} /\ Truthy(clientName) THEN clientName ELSE Null,
     body |-> [f \in BodyFields |-> summaryData[f]]]

\* The three calls of the handler: destination 2 is given no consultant,
\* destination 3 no client.
PageFor(d, meetingDate, consultantName, clientName, summaryData) ==
    createNotionPage(d, meetingDate,
                     IF d = 2 THEN Null ELSE consultantName,
                     IF d = 3 THEN Null ELSE clientName,
                     summaryData)

\* The invocation in flight: its position, its request and locals, and what
\* it has done so far: the external services it has called (calls), the
\* destinations whose page it created (created), the notifications it sent,
\* the answer the summarization service gave it (response).
\* before is the row as an invocation that replays a task found it.
\* meetingDate, consultantName and clientName are the locals the handler
\* reads of the row, object the summary object, pages the properties of the
\* pages it asked the destinations for.
OrchIdle ==
    [pc |-> "idle", task |-> NoTask, storagePath |-> NoPath, errorMessage |-> Null,
     summary |-> Null, okNotes |-> 0, failNotes |-> 0, notifyEnv |-> Null,
     notifyStatus |-> 0, resp |-> 0, calls |-> {}, created |-> {}, before |-> NoRow,
     response |-> "none", meetingDate |-> Null, consultantName |-> Null,
     clientName |-> Null, object |-> NoSummaryObject,
     pages |-> [d \in Destinations |-> NoPage]]

\* An update that writes the status and drops the data.
updateTaskInSupabaseStatusOnly(table, taskId, status, data) ==
    StoreUpdate(table, taskId, [status |-> status])

\* updateTaskInSupabase(taskId, status, data): the keys of data that are not
\* undefined, and processed_at with status 'completed'.
updateTaskInSupabase(table, taskId, status, data) ==
    LET keys == {"status"} \cup DOMAIN data
                \cup (IF status = "completed" THEN {"processed_at"} ELSE {})
    IN  StoreUpdate(table, taskId,
            [f \in keys |->
                IF f = "status" THEN status
                ELSE IF f \in DOMAIN data THEN data[f]
                ELSE "now"])

NoData == [f \in {} |-> Null]

\* summarizeTextWithGemini: what the model answers, and what the code makes
\* of it after stripping the code fence: a summary object ("six_fields"),
\* the value null, or a thrown error ("throws").
SummaryResponses == {"json", "fenced_json", "null", "not_json", "api_error"}

\* A summarizer that makes an empty summary object of an answer it cannot
\* parse.
summarizeTextCoercing(response) ==
    CASE response \in {"json", "fenced_json", "not_json"} -> "six_fields"
      [] response = "null" -> "null"
      [] OTHER -> "throws"

summarizeTextWithGemini(response) ==
    CASE response \in {"json", "fenced_json"} -> "six_fields"
      [] response = "null" -> "null"
      [] OTHER -> "throws"

\* `Gemini API request failed: ${e.message}`: the message of JSON.parse's
\* SyntaxError, or of the API's error.
GeminiError(response) ==
    IF response = "not_json" THEN "Gemini API request failed: Unexpected token"
    ELSE "Gemini API request failed: api error"

\* JSON.stringify(structuredSummary)
SummaryResult(summary, object) ==
    IF summary = "null" THEN "'null'" ELSE JSONStringify(object)

\* createNotionPage(NOTION_DB_ID_d, ...)
NotionCall(d) == <<"notion1", "notion2", "notion3">>[d]

\* (response as {id: string}).id of the page created in destination d
PageIdOf(d) == <<"page-a", "page-b", "page-c">>[d]

\* notionPageId1, notionPageId2, notionPageId3: the id of the created page,
\* null where createNotionPage returned null or was not called
notionPageId(d, created) == IF d \in created THEN PageIdOf(d) ELSE Null

\* array.filter(id => id !== null)
RECURSIVE FilterNotNull(_)
FilterNotNull(array) ==
    IF array = <<>> THEN <<>>
    ELSE (IF Head(array) # Null THEN <<Head(array)>> ELSE <<>>) \o FilterNotNull(Tail(array))

\* array.join(','), of strings
RECURSIVE Join(_)
Join(array) ==
    IF array = <<>> THEN ""
    ELSE IF Len(array) = 1 THEN array[1]
    ELSE array[1] \o "," \o Join(Tail(array))

\* [notionPageId1, notionPageId2, notionPageId3], from destination d on
RECURSIVE PagesFrom(_, _)
PagesFrom(d, created) ==
    IF d > 3 THEN <<>>
    ELSE <<notionPageId(d, created)>> \o PagesFrom(d + 1, created)

\* The ids joined in the order the array gives them, last destination first
notionPageIdsReversed(created) ==
    Join(FilterNotNull([d \in 1..3 |-> notionPageId(4 - d, created)]))

\* [notionPageId1, notionPageId2, notionPageId3].filter(id => id !== null).join(',')
notionPageIdsToStore(created) == Join(FilterNotNull(PagesFrom(1, created)))

\* notion_page_id: notionPageIdsToStore || null
StoredPageIds(joined) == IF joined = "" THEN Null ELSE joined

\* The payloads of notifySlack, by the keys the orchestrator gives them.
SuccessPayload(taskId, pages) ==
    [taskId |-> taskId, status |-> "completed", fileName |-> "file",
     summary |-> "meeting_title", notionPageIds |-> pages]

FailurePayload(taskId, errorMessage) ==
    [taskId |-> taskId, status |-> "failed", fileName |-> "file",
     errorMessage |-> errorMessage]

----------------------------------------------------------------------------
(* Notification Adapter: POST /api/slack/notify *)

\* The adapter's environment: the bot token and channel are set or not, and
\* chat.postMessage accepts the post or not.
NotifyEnvs == {"configured_accepting", "configured_refusing", "unconfigured"}

\* A field of the destructured body, with its default where the body lacks it
Field(body, name, default) == IF name \in DOMAIN body THEN body[name] ELSE default

\* The fields sendSlackNotification's message is built from
Destructured(body) ==
    [task_id |-> Field(body, "task_id", Null),
     status |-> Field(body, "status", Null),
     original_file_name |-> Field(body, "original_file_name", "N/A"),
     storage_transcript_path |-> Field(body, "storage_transcript_path", "N/A"),
     storage_summary_path |-> Field(body, "storage_summary_path", "N/A"),
     transcript_text |-> Field(body, "transcript_text", Null),
     summary_text |-> Field(body, "summary_text", Null),
     notion_page_url |-> Field(body, "notion_page_url", Null),
     error_message |-> Field(body, "error_message", "An unknown error occurred.")]

\* The summary section of a completed message, whose preview is cut or whole
SummarySectionWhole(b) ==
    IF Truthy(b.summary_text) THEN "\nSUMMARY:\n" \o b.summary_text \o "\n"
    ELSE IF b.storage_summary_path # "N/A"
    THEN "\nSUMMARY PATH: " \o b.storage_summary_path \o "\n"
    ELSE ""

SummarySection(b) ==
    IF Truthy(b.summary_text) THEN "\nSUMMARY:\n" \o Preview(b.summary_text) \o "\n"
    ELSE IF b.storage_summary_path # "N/A"
    THEN "\nSUMMARY PATH: " \o b.storage_summary_path \o "\n"
    ELSE ""

TranscriptSection(b) ==
    IF Truthy(b.transcript_text) THEN ""
    ELSE IF b.storage_transcript_path # "N/A"
    THEN "TRANSCRIPT PATH: " \o b.storage_transcript_path \o "\n"
    ELSE ""

PageSection(b) ==
    IF Truthy(b.notion_page_url) THEN "\nNOTION PAGE: " \o b.notion_page_url \o "\n" ELSE ""

\* slackMessage, by the status of the destructured body b
slackMessage(b) ==
    IF b.status = "completed"
    THEN "DONE: video [" \o b.original_file_name \o "] (task " \o ToString(b.task_id)
             \o ").\n" \o SummarySection(b) \o TranscriptSection(b) \o PageSection(b)
    ELSE IF b.status = "failed"
    THEN "FAILED: video [" \o b.original_file_name \o "] (task " \o ToString(b.task_id)
             \o ").\nERROR: " \o b.error_message
    ELSE "UNKNOWN: task " \o ToString(b.task_id) \o " status '" \o b.status \o "'"

\* The adapter's answer to a request body: the HTTP status, the task a
\* message was posted for (NoTask: none) and the message.
NotifyPOST(body, env) ==
    IF "task_id" \notin DOMAIN body
    THEN [status |-> 400, postedFor |-> NoTask, message |-> ""]
    ELSE [status |-> 200,
          postedFor |-> IF env = "configured_accepting" THEN body.task_id ELSE NoTask,
          message |-> slackMessage(Destructured(body))]

----------------------------------------------------------------------------
(* Actions of process-video-task *)

\* The function takes a queued request.  A record without storage_path is
\* thrown out before the table client exists, so the catch writes nothing;
\* otherwise the function posts {taskId, storagePath} to the orchestrator
\* and awaits its response (fetchOk: the post is delivered).
PVTStart(q, fetchOk) ==
    /\ pvt.pc \in {"idle", "done"}
    /\ orch.pc \in {"idle", "done", "aborted"}
    /\ q \in netQueue
    /\ netQueue' = netQueue \ {q}
    /\ IF q.storage_path = NoPath
       THEN /\ pvt' = [PvtIdle EXCEPT !.pc = "done", !.task = q.id, !.resp = 500,
                                      !.msg = "Record ID or storage_path missing in payload"]
            /\ orch' = orch
       ELSE IF ~fetchOk
       THEN /\ pvt' = [PvtIdle EXCEPT !.pc = "catch", !.task = q.id, !.msg = "fetch failed"]
            /\ orch' = orch
       ELSE /\ pvt' = [PvtIdle EXCEPT !.pc = "await", !.task = q.id]
            /\ orch' = [OrchIdle EXCEPT !.pc = "lookup", !.task = q.id,
                                        !.storagePath = q.storage_path]
    /\ UNCHANGED <<rows, objects, nextId, lastReq, lastResp, reqTick, xfer, xferRuns, posted, channel, storeUp>>

\* The orchestrator has answered, or the platform has answered for an
\* invocation it aborted: 'webhook_sent' on a 2xx, else 'webhook_failed' and
\* a throw into the catch.
PVTOnResponse ==
    /\ pvt.pc = "await"
    /\ orch.pc \in {"done", "aborted"}
    /\ orch' = OrchIdle
    /\ IF orch.resp # 200
       THEN /\ rows' = pvtUpdateTaskStatus(rows, pvt.task, "webhook_failed", "Vercel webhook error")
            /\ pvt' = [pvt EXCEPT !.pc = "catch", !.msg = "Vercel webhook notification failed"]
       ELSE /\ rows' = pvtUpdateTaskStatus(rows, pvt.task, "webhook_sent", Null)
            /\ pvt' = [pvt EXCEPT !.pc = "done", !.resp = 200]
    /\ UNCHANGED <<objects, nextId, netQueue, lastReq, lastResp, reqTick, xfer, xferRuns, posted, channel, storeUp>>

\* catch (e): 'function_error' with the message of e
PVTCatch ==
    /\ pvt.pc = "catch"
    /\ rows' = pvtUpdateTaskStatus(rows, pvt.task, "function_error", pvt.msg)
    /\ pvt' = [pvt EXCEPT !.pc = "done", !.resp = 500]
    /\ UNCHANGED <<objects, nextId, netQueue, lastReq, lastResp, reqTick,
                   xfer, xferRuns, orch, posted, channel, storeUp>>

----------------------------------------------------------------------------
(* Actions of the Processing Orchestrator *)

OrchFrame ==
    <<objects, nextId, netQueue, lastReq, lastResp, reqTick, xfer, xferRuns, pvt, storeUp>>

\* An error that is noted and does not stop the run.
ThrowAndGoOn(msg) == [orch EXCEPT !.pc = "summarize", !.errorMessage = msg]

Throw(msg) == [orch EXCEPT !.pc = "catch", !.errorMessage = msg]

\* select(...).eq('id', taskId).single(): taskError, or the row
OrchLookup(taskError) ==
    /\ orch.pc = "lookup"
    /\ IF taskError \/ rows[orch.task] = NoRow
       THEN orch' = [orch EXCEPT !.pc = "lookup_failed",
                                 !.errorMessage = "Failed to fetch task details"]
       ELSE orch' = [orch EXCEPT !.pc = "processing",
                         !.meetingDate = taskParseDateToISO(rows[orch.task].meeting_date),
                         !.consultantName = rows[orch.task].consultant_name,
                         !.clientName = rows[orch.task].client_name]
    /\ UNCHANGED <<rows, posted, channel>>
    /\ UNCHANGED OrchFrame

OrchMarkProcessing ==
    /\ orch.pc = "processing"
    /\ rows' = updateTaskInSupabase(rows, orch.task, "processing_in_vercel", NoData)
    /\ orch' = [orch EXCEPT !.pc = "download"]
    /\ UNCHANGED <<posted, channel>>
    /\ UNCHANGED OrchFrame

\* downloadVideoFromStorage(storagePath)
OrchDownload(serviceOk) ==
    /\ orch.pc = "download"
    /\ IF serviceOk /\ orch.storagePath \in objects
       THEN orch' = [orch EXCEPT !.pc = "transcribe", !.calls = @ \cup {"storage"}]
       ELSE orch' = [Throw("Failed to download video") EXCEPT !.calls = @ \cup {"storage"}]
    /\ UNCHANGED <<rows, posted, channel>>
    /\ UNCHANGED OrchFrame

\* transcribeVideoWithWhisper, then the 'transcribed_in_vercel' update
OrchTranscribe(whisperOk) ==
    /\ orch.pc = "transcribe"
    /\ IF whisperOk
       THEN /\ rows' = updateTaskInSupabase(rows, orch.task, "transcribed_in_vercel",
                          [transcription_result |-> "transcript"])
            /\ orch' = [orch EXCEPT !.pc = "summarize", !.calls = @ \cup {"whisper"}]
       ELSE /\ rows' = rows
            /\ orch' = [Throw("Whisper API request failed") EXCEPT
                            !.calls = @ \cup {"whisper"}]
    /\ UNCHANGED <<posted, channel>>
    /\ UNCHANGED OrchFrame

\* summarizeTextWithGemini, then the 'summarized_in_vercel' update
OrchSummarize(response, object) ==
    /\ orch.pc = "summarize"
    /\ LET summary == summarizeTextWithGemini(response) IN
       IF summary = "throws"
       THEN /\ rows' = rows
            /\ orch' = [Throw(GeminiError(response)) EXCEPT !.calls = @ \cup {"gemini"},
                                                            !.response = response]
       ELSE /\ rows' = updateTaskInSupabase(rows, orch.task, "summarized_in_vercel",
                          [summary_result |-> SummaryResult(summary, object)])
            /\ orch' = [orch EXCEPT !.pc = "publish", !.summary = summary,
                                    !.object = IF summary = "null" THEN NoSummaryObject
                                               ELSE object,
                                    !.calls = @ \cup {"gemini"}, !.response = response]
    /\ UNCHANGED <<posted, channel>>
    /\ UNCHANGED OrchFrame

\* The three createNotionPage calls (created: the destinations whose page
\* was created), then the 'completed' update.  createNotionPage reads
\* summaryData.meeting_title outside its try: a null summary throws.
OrchPublish(created) ==
    /\ orch.pc = "publish"
    /\ IF orch.summary = "null"
       THEN /\ rows' = rows
            /\ orch' = [Throw("Cannot read properties of null") EXCEPT
                            !.calls = @ \cup {NotionCall(1)}]
       ELSE /\ rows' = updateTaskInSupabase(rows, orch.task, "completed",
                          [notion_page_id |-> StoredPageIds(notionPageIdsToStore(created))])
            /\ orch' = [orch EXCEPT !.pc = "notify", !.created = created,
                            !.pages = [d \in Destinations |->
                                          PageFor(d, orch.meetingDate, orch.consultantName,
                                                  orch.clientName, orch.object)],
                                    !.calls = @ \cup {NotionCall(d) : d \in Destinations}]
    /\ UNCHANGED <<posted, channel>>
    /\ UNCHANGED OrchFrame

\* notifySlack(payload): one POST to the Notification Adapter, whose failure
\* is logged and never thrown.
notifySlack(payload, env) == NotifyPOST(payload, env)

Posted(answer) ==
    IF answer.postedFor \in TaskIds
    THEN [posted EXCEPT ![answer.postedFor] = @ + 1]
    ELSE posted

\* slackClient.chat.postMessage({channel, text: message})
Channel(answer) == IF answer.postedFor \in TaskIds THEN answer.message ELSE channel

\* A success notification whose failure to be posted is thrown to the catch.
OrchNotifySuccessThrowing(env) ==
    /\ orch.pc = "notify"
    /\ LET answer == notifySlack(SuccessPayload(orch.task, notionPageIdsToStore(orch.created)), env)
       IN  /\ posted' = Posted(answer)
           /\ channel' = Channel(answer)
           /\ orch' = IF answer.postedFor = NoTask
                      THEN [Throw("notification failed") EXCEPT !.okNotes = @ + 1]
                      ELSE [orch EXCEPT !.pc = "done", !.resp = 200, !.okNotes = @ + 1,
                                        !.notifyEnv = env, !.notifyStatus = answer.status]
    /\ UNCHANGED rows
    /\ UNCHANGED OrchFrame

OrchNotifySuccess(env) ==
    /\ orch.pc = "notify"
    /\ LET answer == notifySlack(SuccessPayload(orch.task, notionPageIdsToStore(orch.created)), env)
       IN  /\ posted' = Posted(answer)
           /\ channel' = Channel(answer)
           /\ orch' = [orch EXCEPT !.pc = "done", !.resp = 200, !.okNotes = @ + 1,
                                   !.notifyEnv = env, !.notifyStatus = answer.status]
    /\ UNCHANGED rows
    /\ UNCHANGED OrchFrame

\* The 'failed_in_vercel' update of the lookup branch and of the catch
OrchRecordFailure ==
    /\ orch.pc \in {"lookup_failed", "catch"}
    /\ rows' = updateTaskInSupabase(rows, orch.task, "failed_in_vercel",
                  [error_message |-> orch.errorMessage])
    /\ orch' = [orch EXCEPT !.pc = "notify_failure"]
    /\ UNCHANGED <<posted, channel>>
    /\ UNCHANGED OrchFrame

OrchNotifyFailure(env) ==
    /\ orch.pc = "notify_failure"
    /\ LET answer == notifySlack(FailurePayload(orch.task, orch.errorMessage), env)
       IN  /\ posted' = Posted(answer)
           /\ channel' = Channel(answer)
           /\ orch' = [orch EXCEPT !.pc = "done", !.resp = 500, !.failNotes = @ + 1,
                                   !.notifyEnv = env, !.notifyStatus = answer.status]
    /\ UNCHANGED rows
    /\ UNCHANGED OrchFrame

\* POST /api/process-task with {taskId, storagePath} of a row, from a caller
\* other than the trigger function: an operator running an uploaded task or
\* replaying a completed one.  The handler takes any request that names both
\* fields; it does not read the status.
OrchInvoke(t) ==
    /\ pvt.pc # "await"
    /\ orch.pc \in {"idle", "done", "aborted"}
    /\ rows[t].status \in {"uploaded", "completed"}
    /\ rows[t].storage_path # NoPath
    /\ orch' = [OrchIdle EXCEPT !.pc = "lookup", !.task = t,
                                !.storagePath = rows[t].storage_path,
                                !.before = rows[t]]
    /\ UNCHANGED <<rows, posted, channel>>
    /\ UNCHANGED OrchFrame

\* POST /api/process-task with {taskId, storagePath} of a row whose run has
\* failed: the external reprocessing action on a failed task.
OrchReprocess(t) ==
    /\ pvt.pc # "await"
    /\ orch.pc \in {"idle", "done", "aborted"}
    /\ rows[t].status = "failed_in_vercel"
    /\ rows[t].storage_path # NoPath
    /\ orch' = [OrchIdle EXCEPT !.pc = "lookup", !.task = t,
                                !.storagePath = rows[t].storage_path,
                                !.before = rows[t]]
    /\ UNCHANGED <<rows, posted, channel>>
    /\ UNCHANGED OrchFrame

\* The positions at which the handler awaits an external call.
OrchAwaiting ==
    {"lookup", "lookup_failed", "processing", "download", "transcribe",
     "summarize", "publish", "notify", "catch", "notify_failure"}

\* The platform ends the invocation at an await (its request timeout) and
\* answers the caller itself, with a 504; no catch block runs.
OrchAbort ==
    /\ orch.pc \in OrchAwaiting
    /\ orch' = [orch EXCEPT !.pc = "aborted", !.resp = 504]
    /\ UNCHANGED <<rows, posted, channel>>
    /\ UNCHANGED OrchFrame

\* The table starts or stops answering updates with an error.
StoreFlip ==
    /\ storeUp' = ~storeUp
    /\ UNCHANGED <<rows, objects, nextId, netQueue, lastReq, lastResp, reqTick,
                   xfer, xferRuns, pvt, orch, posted, channel>>

----------------------------------------------------------------------------
(* Specifications *)

Init ==
    /\ rows = [t \in TaskIds |-> NoRow]
    /\ objects = {}
    /\ nextId = 1
    /\ netQueue = {}
    /\ lastReq = NoRequest
    /\ lastResp = Response(0, NoTask, FALSE, 0)
    /\ reqTick = 0
    /\ xfer = XferIdle
    /\ xferRuns = [t \in TaskIds |-> 0]
    /\ pvt = PvtIdle
    /\ orch = OrchIdle
    /\ posted = [t \in TaskIds |-> 0]
    /\ channel = ""
    /\ storeUp = TRUE

\* The requests the Ingress Adapter accepts: signed, fresh file_shared events
\* whose file has a download URL.
AcceptedRequests ==
    {req \in AllRequests :
        /\ req.signature = Hmac("secret", req.timestamp, req.body)
        /\ req.timestamp = 1000
        /\ req.body.event_type = "file_shared"
        /\ req.fileInfo.url}

Pipeline ==
    \/ \E hasFile, storageOk \in BOOLEAN : SlackIntakePOST(hasFile, storageOk, TypicalText)
    \/ \E t \in TaskIds : TransferInvoke(t)
    \/ \E outcome \in {"ok", "non2xx", "no_body", "throws"} : TransferFetch(outcome)
    \/ \E serviceOk \in BOOLEAN : TransferUpload(serviceOk)
    \/ TransferWriteUploaded
    \/ \E q \in QueueEntries, fetchOk \in BOOLEAN : PVTStart(q, fetchOk)
    \/ PVTOnResponse
    \/ PVTCatch
    \/ \E taskError \in BOOLEAN : OrchLookup(taskError)
    \/ OrchMarkProcessing
    \/ \E serviceOk \in BOOLEAN : OrchDownload(serviceOk)
    \/ \E whisperOk \in BOOLEAN : OrchTranscribe(whisperOk)
    \/ \E response \in SummaryResponses : OrchSummarize(response, TypicalSummary)
    \/ \E created \in SUBSET Destinations : OrchPublish(created)
    \/ \E env \in NotifyEnvs : OrchNotifySuccess(env)
    \/ OrchRecordFailure
    \/ \E env \in NotifyEnvs : OrchNotifyFailure(env)

\* The pipeline, fed by the requests the Ingress Adapter accepts.
Next ==
    \/ \E req \in AcceptedRequests : SlackEventsPOST(req)
    \/ Pipeline

Spec == Init /\ [][Next]_vars

\* The steps of an invocation of the orchestrator.
OrchSteps ==
    \/ \E taskError \in BOOLEAN : OrchLookup(taskError)
    \/ OrchMarkProcessing
    \/ \E serviceOk \in BOOLEAN : OrchDownload(serviceOk)
    \/ \E whisperOk \in BOOLEAN : OrchTranscribe(whisperOk)
    \/ \E response \in SummaryResponses : OrchSummarize(response, TypicalSummary)
    \/ \E created \in SUBSET Destinations : OrchPublish(created)
    \/ \E env \in NotifyEnvs : OrchNotifySuccess(env)
    \/ OrchRecordFailure
    \/ \E env \in NotifyEnvs : OrchNotifyFailure(env)

\* The trigger chain from the direct-upload ingress on.
TriggerChain ==
    \/ \E hasFile, storageOk \in BOOLEAN : SlackIntakePOST(hasFile, storageOk, TypicalText)
    \/ \E q \in QueueEntries, fetchOk \in BOOLEAN : PVTStart(q, fetchOk)
    \/ PVTOnResponse
    \/ PVTCatch
    \/ OrchSteps

\* The chain over a table that may answer an update with an error.
NextStore == TriggerChain \/ StoreFlip

SpecStore == Init /\ [][NextStore]_vars

\* The chain with invocations of the orchestrator the platform aborts.
NextAbort == TriggerChain \/ OrchAbort

SpecAbort == Init /\ [][NextAbort]_vars

\* The orchestrator run and replayed by an operator on uploaded tasks.
NextReplay ==
    \/ \E hasFile, storageOk \in BOOLEAN : SlackIntakePOST(hasFile, storageOk, TypicalText)
    \/ \E t \in TaskIds : OrchInvoke(t)
    \/ OrchSteps

SpecReplay == Init /\ [][NextReplay]_vars

\* The orchestrator run by an operator on uploaded tasks, and run again on
\* the tasks whose run has failed: runs in which the transcription or the
\* summarization may fail and every other service succeeds.
NextReprocess ==
    \/ \E hasFile, storageOk \in BOOLEAN : SlackIntakePOST(hasFile, storageOk, TypicalText)
    \/ \E t \in TaskIds : OrchInvoke(t)
    \/ \E t \in TaskIds : OrchReprocess(t)
    \/ OrchLookup(FALSE)
    \/ OrchMarkProcessing
    \/ OrchDownload(TRUE)
    \/ \E whisperOk \in BOOLEAN : OrchTranscribe(whisperOk)
    \/ \E response \in {"json", "api_error"} : OrchSummarize(response, TypicalSummary)
    \/ OrchPublish(Destinations)
    \/ OrchNotifySuccess("configured_accepting")
    \/ OrchRecordFailure
    \/ OrchNotifyFailure("configured_accepting")

SpecReprocess == Init /\ [][NextReprocess]_vars

\* The Ingress Adapter alone, under every request.
NextIngress == \E req \in AllRequests : SlackEventsPOST(req)

SpecIngress == Init /\ [][NextIngress]_vars

----------------------------------------------------------------------------
(* Claims *)

\* No request of the trigger is queued or being handled for task t.
TriggerHandled(t) ==
    /\ \A q \in netQueue : q.id # t
    /\ ~(pvt.task = t /\ pvt.pc \in {"await", "catch"})

\* Nothing is queued or running for task t.
AtRest(t) ==
    /\ TriggerHandled(t)
    /\ ~(orch.task = t /\ orch.pc # "idle")
    /\ ~(xfer.task = t /\ xfer.pc \notin {"idle", "done"})

\* A status may stay, move forward along the chain, or leave the chain for
\* a failure status; a failure status stays.
ForwardMove(s, s2) ==
    \/ s = s2
    \/ s = NoRow.status
    \/ s \in ChainStatus /\ s2 \in ChainStatus /\ Rank(s) <= Rank(s2)
    \/ s \in ChainStatus /\ s2 \in FailureStatus

\* C1 (as claimed): without a re-invocation of the Transfer Stage, every
\* write leaves a task's status where it is, moves it forward along the
\* chain or into a failure status, and never replaces a failure status.
C1_StatusMonotone ==
    [][\A t \in TaskIds :
          xferRuns'[t] <= 1 => ForwardMove(rows[t].status, rows'[t].status)]_vars

\* C2 (as claimed): when the trigger chain of a task is at rest and no
\* operator has invoked anything for it, its status is completed,
\* upload_failed or a failed-class status; and a task the orchestrator has
\* completed (processed_at is set by that write alone) still is completed.
C2_RestsTerminal ==
    \A t \in RowIds :
        /\ (AtRest(t) /\ xferRuns[t] = 0)
              => rows[t].status \in {"completed", "upload_failed"} \cup FailedClass
        /\ (rows[t].processed_at # Null /\ xferRuns[t] = 0)
              => rows[t].status = "completed"

\* The orchestrator's task holds a failed-class status and an error message.
FailureRecorded ==
    /\ rows[orch.task].status \in FailedClass
    /\ rows[orch.task].error_message # Null

\* C3: a run of the orchestrator in which a step has failed (its error
\* message is set) sends no success notification, has sent no failure
\* notification before it has recorded the failure, and ends with a
\* failed-class status, a non-null error_message and exactly one failure
\* notification call.
C3_FailureRecordedNotifiedOnce ==
    orch.errorMessage # Null =>
        /\ orch.okNotes = 0
        /\ orch.pc \in {"lookup_failed", "catch", "notify_failure", "done"}
        /\ orch.pc \in {"lookup_failed", "catch"} => orch.failNotes = 0
        /\ orch.pc = "notify_failure" => FailureRecorded /\ orch.failNotes = 0
        /\ orch.pc = "done" => FailureRecorded /\ orch.failNotes = 1 /\ orch.resp = 500

\* Scenario C: the run has ended after the transcription service failed.
C3_Witness ==
    /\ orch.pc = "done"
    /\ orch.errorMessage = "Whisper API request failed"
    /\ orch.failNotes = 1
    /\ rows[orch.task].status = "failed_in_vercel"
    /\ rows[orch.task].summary_result = Null

\* C4 (as claimed): a notification the orchestrator has sent to a configured
\* adapter whose chat API accepts posts was accepted by the adapter and put
\* a message for the task on the operator channel.
C4_NotificationPosted ==
    (orch.pc = "done" /\ orch.notifyEnv = "configured_accepting") =>
        /\ orch.notifyStatus = 200
        /\ posted[orch.task] >= 1

\* The rows the Ingress Adapter inserted.
IngressTasks == {t \in RowIds : rows[t].slack_file_id # NoFile}

\* C5 (as claimed): once the request the insertion trigger queued for a task
\* of the Ingress Adapter has been handled, the Transfer Stage has been
\* invoked for the task; and with nothing left queued or running for it, and
\* no operator action, the task is completed or in a failure status.
C5_TriggerRunsTransfer ==
    \A t \in IngressTasks :
        /\ TriggerHandled(t) => xferRuns[t] >= 1
        /\ (AtRest(t) /\ xferRuns[t] = 0)
              => rows[t].status \in {"completed"} \cup FailureStatus

----------------------------------------------------------------------------
(* Claims on the Ingress Adapter *)

\* The request's age in milliseconds when it is handled.
AgeMs(req) == req.nowMs - req.timestamp * 1000

Signed(req) == req.signature = Hmac("secret", req.timestamp, req.body)

\* A correctly signed, fresh file_shared event whose file resolves to
\* metadata with a download URL.
ValidFileShared(req) ==
    /\ req.timestamp # NoHeader
    /\ Signed(req)
    /\ AgeMs(req) <= ReplayWindowSec * 1000
    /\ req.body.event_type = "file_shared"
    /\ req.fileInfo.ok /\ req.fileInfo.url

\* The step is a request handled by the Ingress Adapter.
Handled == reqTick' # reqTick

\* C6: handling a valid file_shared event inserts exactly one row, under an
\* id no row had, with status upload_pending and the event's file; answers
\* 202 with that id; changes no other row and stores no object.
C6_OneTaskPerValidEvent ==
    [][(Handled /\ ValidFileShared(lastReq')) =>
          LET t == lastResp'.taskId IN
          /\ lastResp'.status = 202
          /\ t \in TaskIds
          /\ rows[t] = NoRow
          /\ rows'[t] # NoRow
          /\ rows'[t].status = "upload_pending"
          /\ rows'[t].slack_file_id = lastReq'.body.file_id
          /\ rows'[t].storage_path = NoPath
          /\ \A u \in TaskIds \ {t} : rows'[u] = rows[u]
          /\ objects' = objects]_vars

C6_Witness ==
    /\ lastResp.status = 202
    /\ ValidFileShared(lastReq)
    /\ Cardinality(RowIds) = 2
    /\ rows[lastResp.taskId].status = "upload_pending"

\* C7 (as claimed): the table holds at most one row for a file.
C7_OneTaskPerFile ==
    \A f \in FileIds : Cardinality({t \in RowIds : rows[t].slack_file_id = f}) <= 1

\* The response is a rejection: an error status, no task, the body not
\* parsed, no metadata lookup.
Rejected(resp) ==
    /\ resp.status >= 400
    /\ resp.taskId = NoTask
    /\ ~resp.parsed
    /\ resp.lookups = 0

\* C8 (as claimed): a request more than 300 seconds old, or without its
\* signature or timestamp header, or whose signature is not the HMAC of
\* 'v0:timestamp:rawBody', is rejected and no row is inserted.
C8_RejectsAsClaimed ==
    [][(Handled /\ (\/ lastReq'.timestamp = NoHeader
                    \/ lastReq'.signature = NoSignature
                    \/ AgeMs(lastReq') > ReplayWindowSec * 1000
                    \/ ~Signed(lastReq')))
          => (Rejected(lastResp') /\ rows' = rows)]_vars

\* The request's timestamp is older than the window on the handler's clock,
\* which counts whole seconds: Math.floor(Date.now() / 1000).
StaleOnClock(req) == req.timestamp < (req.nowMs \div 1000) - ReplayWindowSec

\* What the handler does guarantee in C8's cases: the rejection, with the age
\* taken on the clock in whole seconds.
RejectsStaleOrUnsigned ==
    [][(Handled /\ (\/ lastReq'.timestamp = NoHeader
                    \/ lastReq'.signature = NoSignature
                    \/ StaleOnClock(lastReq')
                    \/ ~Signed(lastReq')))
          => (Rejected(lastResp') /\ rows' = rows)]_vars

\* A correctly signed request, 301 seconds old, has been rejected.
StaleRejected ==
    /\ reqTick = 1
    /\ Signed(lastReq)
    /\ StaleOnClock(lastReq)
    /\ lastReq.body.event_type = "file_shared"
    /\ lastResp.status = 403
    /\ RowIds = {}

----------------------------------------------------------------------------
(* Claims on the Transfer Stage *)

\* The step ends a run of the Transfer Stage with the given response.
TransferEnds(resp) == xfer.pc # "done" /\ xfer'.pc = "done" /\ xfer'.resp = resp

\* The step is a step of a run that does not end the run.
TransferContinues ==
    /\ xfer.pc \in {"fetch", "upload"}
    /\ xfer'.pc \in {"upload", "uploaded"}
    /\ xfer'.pc # xfer.pc

\* C9: a run of the Transfer Stage writes nothing to the row before its last
\* step, and the step that ends it successfully is one update of the row
\* that sets status 'uploaded', storage_path to the key the object was
\* written under, and error_message to null.
C9_SuccessfulTransferUpdate ==
    [][/\ TransferContinues => rows' = rows
       /\ TransferEnds(200) =>
            /\ xfer.storagePath \in objects
            /\ rows' = [rows EXCEPT ![xfer.task] =
                          [@ EXCEPT !.status = "uploaded",
                                    !.storage_path = xfer.storagePath,
                                    !.error_message = Null]]]_vars

\* A second run for a task succeeded after the first had failed.
C9_Witness ==
    /\ xfer.pc = "done" /\ xfer.resp = 200
    /\ xferRuns[xfer.task] = 2
    /\ rows[xfer.task].status = "uploaded"
    /\ rows[xfer.task].storage_path = "uploads/" \o ToString(xfer.task) \o ".mov"
    /\ rows[xfer.task].error_message = Null

\* The object was stored by a run of the Transfer Stage for task t.
TransferredFor(key, t) == StartsAt(key, 1, "uploads/" \o ToString(t) \o ".")

\* C10 (as claimed): the step that ends a run of the Transfer Stage in
\* failure sets status 'upload_failed' and a non-null error_message, does
\* not write storage_path, and leaves storage_path null.
C10_FailedTransferNullPath ==
    [][TransferEnds(500) =>
          /\ rows'[xfer.task].status = "upload_failed"
          /\ rows'[xfer.task].error_message # Null
          /\ rows'[xfer.task].storage_path = rows[xfer.task].storage_path
          /\ rows'[xfer.task].storage_path = NoPath]_vars

\* C10 (amended): a run of the Transfer Stage that ends in failure sets
\* status 'upload_failed' and a non-null error_message and changes nothing
\* else in the row: storage_path is after the run what it was before it,
\* null when no earlier run has transferred the task's file.
C10_FailedTransferKeepsPath ==
    [][/\ TransferContinues => rows' = rows
       /\ TransferEnds(500) =>
            /\ rows'[xfer.task].error_message # Null
            /\ rows' = [rows EXCEPT ![xfer.task] =
                          [@ EXCEPT !.status = "upload_failed",
                                    !.error_message = rows'[xfer.task].error_message]]
            /\ (\A p \in objects : ~TransferredFor(p, xfer.task))
                  => rows'[xfer.task].storage_path = NoPath]_vars

\* The storage write of a task's first run has failed.
C10_Witness ==
    /\ xfer.pc = "done" /\ xfer.resp = 500
    /\ xferRuns[xfer.task] = 1
    /\ rows[xfer.task].status = "upload_failed"
    /\ rows[xfer.task].error_message = "Supabase Storage upload failed"
    /\ rows[xfer.task].storage_path = NoPath

----------------------------------------------------------------------------
(* Claims on the Processing Orchestrator *)

\* The destinations the invocation in flight has called createNotionPage for.
Attempted == {d \in Destinations : NotionCall(d) \in orch.calls}

\* C11 (as claimed): when the invocation has called the summarization
\* service the row holds a transcription_result, and when it has called
\* createNotionPage the row holds a summary_result.
C11_PersistedBeforeNextStep ==
    /\ "gemini" \in orch.calls => rows[orch.task].transcription_result # Null
    /\ Attempted # {} => rows[orch.task].summary_result # Null

\* C12: in a run whose transcription has failed, the summarization service
\* and createNotionPage are never called, the run writes neither
\* transcription_result nor summary_result (both are null on the fresh
\* task), and once the failure is recorded the task holds a failed-class
\* status and an error message.
C12_TranscriptionFailureStops ==
    orch.errorMessage = "Whisper API request failed" =>
        /\ orch.pc \in {"catch", "notify_failure", "done"}
        /\ "gemini" \notin orch.calls
        /\ Attempted = {} /\ orch.created = {}
        /\ rows[orch.task].transcription_result = Null
        /\ rows[orch.task].summary_result = Null
        /\ rows[orch.task].notion_page_id = NoPages
        /\ orch.pc \in {"notify_failure", "done"} => FailureRecorded

\* A run has ended after the transcription service, called once the media
\* was downloaded, failed.
C12_Witness ==
    /\ orch.pc = "done" /\ orch.resp = 500
    /\ orch.errorMessage = "Whisper API request failed"
    /\ orch.calls = {"storage", "whisper"}
    /\ rows[orch.task].status = "failed_in_vercel"
    /\ rows[orch.task].error_message = "Whisper API request failed"
    /\ rows[orch.task].transcription_result = Null

\* C13: in a run whose summarization answer does not parse as JSON, the
\* summarize step throws: summary_result is not written, createNotionPage is
\* never called, the stored transcription_result is kept, and once the
\* failure is recorded the task holds a failed-class status and an error
\* message.
C13_MalformedSummaryFails ==
    orch.response = "not_json" =>
        /\ orch.pc \in {"catch", "notify_failure", "done"}
        /\ orch.errorMessage = GeminiError("not_json")
        /\ orch.summary = Null
        /\ Attempted = {} /\ orch.created = {}
        /\ rows[orch.task].summary_result = Null
        /\ rows[orch.task].notion_page_id = NoPages
        /\ rows[orch.task].transcription_result = "transcript"
        /\ orch.pc \in {"notify_failure", "done"} => FailureRecorded

\* Scenario D: a run has ended after a malformed summarization answer.
C13_Witness ==
    /\ orch.pc = "done" /\ orch.resp = 500
    /\ orch.response = "not_json"
    /\ rows[orch.task].status = "failed_in_vercel"
    /\ rows[orch.task].error_message = "Gemini API request failed: Unexpected token"
    /\ rows[orch.task].transcription_result = "transcript"
    /\ rows[orch.task].summary_result = Null

\* The run in flight has ended, and its summarize step had succeeded with
\* one of the given answers.
EndedAfterSummary(answers) == orch.pc = "done" /\ orch.response \in answers

\* Whatever pages were created, createNotionPage was called for each of the
\* three destinations, nothing was thrown, no failure notification was sent
\* and the run left the task completed.
PublishedAll ==
    /\ Attempted = Destinations
    /\ orch.created \subseteq Destinations
    /\ orch.errorMessage = Null
    /\ orch.failNotes = 0
    /\ orch.resp = 200
    /\ rows[orch.task].status = "completed"
    /\ rows[orch.task].notion_page_id = StoredPageIds(notionPageIdsToStore(orch.created))

\* C14 (as claimed): a run whose transcription and summarization succeeded
\* calls createNotionPage for each of the three destinations whichever of
\* them fail, propagates no failure, sends no failure notification and
\* leaves the task completed.
C14_PublishFailuresTolerated ==
    EndedAfterSummary({"json", "fenced_json", "null"}) => PublishedAll

\* What the handler does guarantee in C14's case: the same, for a summary
\* that is a JSON object.
PublishApiFailuresTolerated ==
    EndedAfterSummary({"json", "fenced_json"}) => PublishedAll

\* The invocation in flight replays a task it found completed.
ReplaysCompleted == orch.before # NoRow /\ orch.before.status = "completed"

\* C15: while and after the orchestrator replays a completed task, with the
\* transcription service giving the transcript and the summarization
\* service the summary object they gave before, transcription_result and
\* summary_result are what they were before the replay.
C15_ReplayKeepsResults ==
    (ReplaysCompleted /\ orch.response # "null") =>
        /\ rows[orch.task].transcription_result = orch.before.transcription_result
        /\ rows[orch.task].summary_result = orch.before.summary_result

\* A replay of a completed task has run to its end and completed it again.
C15_Witness ==
    /\ ReplaysCompleted
    /\ orch.pc = "done" /\ orch.resp = 200
    /\ orch.calls = {"storage", "whisper", "gemini", "notion1", "notion2", "notion3"}
    /\ rows[orch.task].status = "completed"
    /\ rows[orch.task].transcription_result = "transcript"
    /\ rows[orch.task].summary_result = SummaryResult("six_fields", TypicalSummary)

----------------------------------------------------------------------------
(* Claims on the columns of a task *)

\* The row's storage_path, absent for a task that has no row.
PathOf(table, t) == IF table[t] = NoRow THEN NoPath ELSE table[t].storage_path

\* The step is the Transfer Stage's update that ends a successful run for t.
TransferWrites(t) == TransferEnds(200) /\ xfer.task = t

\* C16 (as claimed): a step that changes a task's storage_path finds it
\* absent and is the Transfer Stage's update of that task.
C16_PathSetOnceByTransfer ==
    [][\A t \in TaskIds :
          PathOf(rows', t) # PathOf(rows, t)
              => (PathOf(rows, t) = NoPath /\ TransferWrites(t))]_vars

\* The columns the Processing Orchestrator fills, and those the ingress and
\* the Transfer Stage fill.
OrchestratorColumns ==
    {"transcription_result", "summary_result", "notion_page_id", "processed_at"}

IntakeColumns ==
    {"storage_path", "original_file_name", "meeting_date", "consultant_name", "client_name"}

\* The step leaves the given columns of every row as they are.
Keeps(columns) ==
    \A t \in RowIds : \A f \in columns : rows'[t][f] = rows[t][f]

\* C17: a step of the Transfer Stage writes none of transcription_result,
\* summary_result, notion_page_id, processed_at; a step of the orchestrator
\* or of process-video-task writes none of storage_path, original_file_name,
\* meeting_date, consultant_name, client_name.
C17_StagesKeepToTheirColumns ==
    [][/\ xfer' # xfer => Keeps(OrchestratorColumns)
       /\ (orch' # orch \/ pvt' # pvt) => Keeps(IntakeColumns)]_vars

\* The Transfer Stage has uploaded one task, and the orchestrator and the
\* trigger function have both written another.
C17_Witness ==
    \E t, u \in RowIds :
        /\ rows[t].status = "uploaded" /\ rows[t].storage_path = "uploads/" \o ToString(t) \o ".mov"
        /\ rows[t].processed_at = Null /\ rows[t].transcription_result = Null
        /\ rows[u].status = "webhook_sent" /\ rows[u].processed_at = "now"
        /\ rows[u].storage_path = IntakePath(u) /\ rows[u].client_name = "acme"

----------------------------------------------------------------------------
(* Claims on the order and ownership of the stages *)

\* The step is one of the orchestrator's own invocation.
OrchStep == orch' # orch /\ orch.pc # "idle" /\ orch'.pc # "idle"

\* C18 (as claimed): from the start of an orchestrator invocation for a
\* task on, while it runs and after it has recorded its final status, only
\* the orchestrator's own steps change the task's status or error_message.
C18_OrchestratorOwnsStatus ==
    [][\A t \in RowIds :
          (orch.pc # "idle" /\ orch.task = t
             /\ (rows'[t].status # rows[t].status
                   \/ rows'[t].error_message # rows[t].error_message))
          => OrchStep]_vars

\* C19: when an invocation of the orchestrator is about to download, or
\* has downloaded, the task's row holds a storage_path, and it is the path
\* the invocation downloads.
C19_DownloadAfterTransfer ==
    (orch.pc = "download" \/ "storage" \in orch.calls) =>
        /\ rows[orch.task] # NoRow
        /\ rows[orch.task].storage_path # NoPath
        /\ rows[orch.task].storage_path = orch.storagePath

\* The orchestrator has downloaded the object the ingress stored for the
\* task.
C19_Witness ==
    /\ orch.pc = "transcribe"
    /\ orch.calls = {"storage"}
    /\ orch.storagePath = IntakePath(orch.task)
    /\ orch.storagePath \in objects
    /\ rows[orch.task].status = "processing_in_vercel"

\* C20 (as claimed): after the platform has aborted an invocation of the
\* orchestrator, no step of any component changes the status the task had
\* at the abort.
C20_AbortLeavesStatus ==
    [][\A t \in RowIds :
          (orch.pc = "aborted" /\ orch.task = t) => rows'[t].status = rows[t].status]_vars

----------------------------------------------------------------------------
(* Claims on the notification *)

\* The Notification Adapter answers a body the same whether or not its
\* token and channel are set and whether or not the chat API takes the post.
AdapterIgnoresChannel ==
    \A t \in TaskIds, env \in NotifyEnvs :
        \A body \in {SuccessPayload(t, <<>>), FailurePayload(t, "error"),
                     [task_id |-> t, status |-> "completed"]} :
            NotifyPOST(body, env).status = NotifyPOST(body, "configured_accepting").status

\* A run whose summarize step succeeded with one of the given answers has
\* recorded 'completed' when it is about to notify, and ends with the task
\* completed, one success notification sent and nothing raised, whatever
\* the adapter answered.
CompletedAroundNotification(answers) ==
    orch.response \in answers =>
        /\ orch.pc \in {"publish", "notify", "done"}
        /\ orch.pc \in {"notify", "done"} => rows[orch.task].status = "completed"
        /\ orch.pc = "done" =>
              /\ orch.okNotes = 1 /\ orch.failNotes = 0
              /\ orch.errorMessage = Null /\ orch.resp = 200

\* C21 (as claimed): the adapter's answer does not depend on its channel or
\* credentials, and a run whose transcription and summarization succeeded
\* has status completed recorded before it notifies and keeps it whatever
\* the outcome of the notification.
C21_CompletedBeforeNotification ==
    /\ AdapterIgnoresChannel
    /\ CompletedAroundNotification({"json", "fenced_json", "null"})

\* What the handler does guarantee in C21's case: the same, for a summary
\* that is a JSON object.
NotificationNeverBlocksCompletion ==
    /\ AdapterIgnoresChannel
    /\ CompletedAroundNotification({"json", "fenced_json"})

\* A run has ended completed although the adapter had no credentials.
UnconfiguredNotificationCompleted ==
    /\ orch.pc = "done" /\ orch.resp = 200
    /\ orch.notifyEnv = "unconfigured"
    /\ orch.response = "json"
    /\ rows[orch.task].status = "completed"

----------------------------------------------------------------------------
(* Claims on what the Ingress Adapter leaves alone *)

\* The request passes verifySlackRequest: both headers, a timestamp inside
\* the window on the handler's clock, the signature of this request.
Verified(req) ==
    /\ req.timestamp # NoHeader
    /\ ~StaleOnClock(req)
    /\ Signed(req)

\* The step inserts no row, queues no trigger request, stores no object.
NothingCreated ==
    /\ rows' = rows
    /\ netQueue' = netQueue
    /\ objects' = objects
    /\ nextId' = nextId

\* C22: a verified url_verification request is answered 200 with the
\* challenge of its body, without a task, a files.info lookup or a write;
\* a verified request whose event is of another type than file_shared, or
\* that carries no event, creates no task and writes nothing either.
C22_HandshakeCreatesNoTask ==
    [][(Handled /\ Verified(lastReq')) =>
          /\ lastReq'.body.type = "url_verification" =>
                /\ lastResp'.status = 200
                /\ lastResp'.challenge = lastReq'.body.challenge
                /\ lastResp'.taskId = NoTask
                /\ lastResp'.lookups = 0
                /\ NothingCreated
          /\ lastReq'.body.event_type # "file_shared" =>
                /\ lastResp'.taskId = NoTask
                /\ lastResp'.lookups = 0
                /\ NothingCreated]_vars

\* A handshake has been answered with its challenge after a task had been
\* created, and the table still holds that one task.
C22_Witness ==
    /\ Verified(lastReq)
    /\ lastReq.body.type = "url_verification"
    /\ lastResp.status = 200
    /\ lastResp.challenge = "challenge_b"
    /\ Cardinality(RowIds) = 1
    /\ Cardinality(netQueue) = 1

\* The step handles a verified file_shared event.
HandledFileShared ==
    /\ Handled
    /\ Verified(lastReq')
    /\ lastReq'.body.event_type = "file_shared"

\* C23: for a verified file_shared event whose files.info lookup fails the
\* handler answers with an error status, and for one whose file has no
\* download URL with a 4xx; in both cases the response names no task and
\* no row is inserted, no trigger request queued and no object stored.
C23_BadMetadataCreatesNoTask ==
    [][HandledFileShared =>
          /\ ~lastReq'.fileInfo.ok =>
                /\ lastResp'.status >= 400
                /\ lastResp'.taskId = NoTask
                /\ NothingCreated
          /\ (lastReq'.fileInfo.ok /\ ~lastReq'.fileInfo.url) =>
                /\ lastResp'.status \in 400..499
                /\ lastResp'.taskId = NoTask
                /\ lastResp'.lookups = 1
                /\ NothingCreated]_vars

\* After one task was created, an event whose file has no download URL
\* has been answered 400, and the table holds the one task.
C23_Witness ==
    /\ Verified(lastReq)
    /\ lastReq.body.event_type = "file_shared"
    /\ lastReq.fileInfo.ok /\ ~lastReq.fileInfo.url
    /\ lastResp.status = 400
    /\ reqTick = 0
    /\ Cardinality(RowIds) = 1 /\ Cardinality(netQueue) = 1

----------------------------------------------------------------------------
(* The two ingresses under the texts of the model *)

\* A signed, fresh file_shared event whose file has a download URL and the
\* given initial comment.
TextRequest(text) ==
    LET body == [NoBody EXCEPT !.type = "event_callback", !.event_type = "file_shared",
                               !.file_id = 1]
    IN  [body |-> body, timestamp |-> 1000, nowMs |-> 1000500,
         signature |-> Hmac("secret", 1000, body),
         fileInfo |-> [mimetype |-> <<"video", "mp4">>, filetype |-> "mp4",
                       ok |-> TRUE, url |-> TRUE, comment |-> text]]

NextText ==
    \/ \E text \in Texts : SlackEventsPOST(TextRequest(text))
    \/ \E hasFile, storageOk \in BOOLEAN, text \in Texts :
          SlackIntakePOST(hasFile, storageOk, text)

SpecText == Init /\ [][NextText]_vars

----------------------------------------------------------------------------
(* Claims on the parsing of the accompanying text *)

\* The months and days of the model's texts that a calendar has.
CalendarMonths == {"5", "05", "12"}

CalendarDays == {"7", "17"}

\* The zero-padded date of the given month and day of 2024.
Padded(month, day) ==
    "2024-" \o (IF Len(month) = 1 THEN "0" ELSE "") \o month
    \o "-" \o (IF Len(day) = 1 THEN "0" ELSE "") \o day

\* Either ingress, handling a text that holds a date of one of the given
\* forms, stores the zero-padded date with the task it creates.
FormsNormalized(forms) ==
    \A form \in forms, labelled \in BOOLEAN, month \in CalendarMonths, day \in CalendarDays :
        LET text == DateText(form, labelled, month, day) IN
        /\ SlackEventsPOST(TextRequest(text))
              => rows'[nextId].meeting_date = Padded(month, day)
        /\ SlackIntakePOST(TRUE, TRUE, text)
              => rows'[nextId].meeting_date = Padded(month, day)

\* C24 (as claimed): for a date text of any of the forms YYYY/MM/DD,
\* YYYY-MM-DD and YYYY(year)MM(month)DD(day), with a month and a day of one
\* or two digits and with or without a label before it, the ingress parser
\* yields the zero-padded YYYY-MM-DD string as meetingDate.
C24_DateFormsNormalized == [][FormsNormalized(DateForms)]_vars

\* What holds of C24: the forms with slashes and with the year, month and
\* day marks are normalized by both ingresses.
SlashAndMarkFormsNormalized == [][FormsNormalized({"slashes", "marks"})]_vars

\* The events ingress has created a task of the text "2024-05-17", and the
\* task has no meeting date.
HyphenDateLost ==
    /\ lastReq = TextRequest(DateText("hyphens", FALSE, "05", "17"))
    /\ lastResp.status = 202
    /\ rows[lastResp.taskId].meeting_date = Null

\* The events ingress has created a task of the text of scenario A, and the
\* task has the date 2024-05-17.
MarkDateStored ==
    /\ lastReq = TextRequest(DateText("marks", FALSE, "5", "17"))
    /\ lastResp.status = 202
    /\ rows[lastResp.taskId].meeting_date = "2024-05-17"

\* The text holds a date: four digits, a separator, one or two digits, a
\* separator and a digit.
HoldsDate(text) == DateMatch(text) # NoMatch

\* The text holds one of the labels with a name after it: a character that
\* is neither a colon nor white space follows the label and its separators.
HoldsName(text, labels) ==
    \E i \in 1..Len(text), k \in 1..Len(labels) :
        /\ StartsAt(text, i, labels[k])
        /\ LET p == i + Len(labels[k])
           IN  CharAt(text, p + Run(text, p, {":"} \cup Whitespace)) # ""

\* The Ingress Adapter, handling a file with the given text, creates the
\* task, and leaves absent each field the text does not hold.
CreatedWithoutTheUnparsed(text) ==
    SlackEventsPOST(TextRequest(text))
        => /\ lastResp'.status = 202
           /\ rows'[nextId].status = "upload_pending"
           /\ ~HoldsDate(text) => rows'[nextId].meeting_date = Null
           /\ ~HoldsName(text, ConsultantLabels) => rows'[nextId].consultant_name = Null
           /\ ~HoldsName(text, ClientLabels) => rows'[nextId].client_name = Null

\* C25 (as claimed): whatever the accompanying text is (empty, without a
\* date, without labelled names, unparseable), the Ingress Adapter creates
\* the task, and each field that could not be parsed is absent from it.
C25_TextNeverBlocksIngestion == [][\A text \in Texts : CreatedWithoutTheUnparsed(text)]_vars

\* What holds of C25: the task is created whatever the text is; a text that
\* holds neither a date nor a label leaves the three fields absent; and the
\* text of scenario B yields the consultant and no date.
TextNeverBlocksCreation ==
    [][\A text \in Texts :
          SlackEventsPOST(TextRequest(text))
              => /\ lastResp'.status = 202
                 /\ rows'[nextId].status = "upload_pending"
                 /\ text \in {"", "hello"}
                        => /\ rows'[nextId].meeting_date = Null
                           /\ rows'[nextId].consultant_name = Null
                           /\ rows'[nextId].client_name = Null
                 /\ text = "T: yamada"
                        => /\ rows'[nextId].meeting_date = Null
                           /\ rows'[nextId].consultant_name = "yamada"]_vars

\* The Ingress Adapter has created a task of a text that is a consultant
\* label and a colon with no name, and the task's consultant is the colon.
ColonStoredAsConsultant ==
    /\ lastReq = TextRequest("T:")
    /\ lastResp.status = 202
    /\ rows[lastResp.taskId].consultant_name = ":"

\* The Ingress Adapter has created a task of the text of scenario B.
ScenarioBStored ==
    /\ lastReq = TextRequest("T: yamada")
    /\ lastResp.status = 202
    /\ rows[lastResp.taskId].meeting_date = Null
    /\ rows[lastResp.taskId].consultant_name = "yamada"

----------------------------------------------------------------------------
(* The orchestrator under the summary objects of the model: runs whose
   download and transcription succeed, which publish to every destination or
   to the second alone. *)

NextPublish ==
    \/ \E hasFile, storageOk \in BOOLEAN : SlackIntakePOST(hasFile, storageOk, TypicalText)
    \/ \E t \in TaskIds : OrchInvoke(t)
    \/ \E taskError \in BOOLEAN : OrchLookup(taskError)
    \/ OrchMarkProcessing
    \/ OrchDownload(TRUE)
    \/ OrchTranscribe(TRUE)
    \/ \E response \in {"json", "null"}, object \in SummaryObjects :
          OrchSummarize(response, object)
    \/ \E created \in {Destinations, {2}} : OrchPublish(created)
    \/ OrchNotifySuccess("configured_accepting")
    \/ OrchRecordFailure
    \/ OrchNotifyFailure("configured_accepting")

SpecPublish == Init /\ [][NextPublish]_vars

----------------------------------------------------------------------------
(* Claims on what is published *)

\* The run in flight has published: its pages are asked for and 'completed'
\* is written.
Published == orch.pc = "notify" \/ (orch.pc = "done" /\ orch.resp = 200)

\* The record of destination d carries the five body fields of the summary
\* object as they are, and summary_result is the whole object.
BodyVerbatim(d) ==
    /\ \A f \in BodyFields : orch.pages[d].body[f] = orch.object[f]
    /\ rows[orch.task].summary_result = JSONStringify(orch.object)

\* The title createNotionPage makes up for a summary without one, of the
\* client and the date the call is given.
FallbackTitle(d) ==
    (IF d # 3 /\ Truthy(orch.clientName) THEN orch.clientName ELSE "N/A") \o "SAMA "
    \o (IF Truthy(orch.meetingDate) THEN orch.meetingDate ELSE "DATE_UNKNOWN")

\* C26 (as claimed): the record published to a destination carries the six
\* fields of the structured summary with exactly the values of the summary
\* object, untruncated, and summary_result stores the whole object.
C26_SixFieldsVerbatim ==
    Published =>
        \A d \in orch.created :
            /\ BodyVerbatim(d)
            /\ orch.pages[d].title = orch.object.meeting_title

\* C26 (amended): the published record carries the five body fields with
\* exactly the values of the summary object, and its title when the object
\* has one; a summary with an empty title is published under the fallback
\* title.  Nothing is truncated, summary_result stores the whole object, and
\* the preview of the notification cuts the same text at PreviewLen.
C26_PublishedVerbatim ==
    Published =>
        \A d \in orch.created :
            /\ BodyVerbatim(d)
            /\ orch.pages[d].title =
                  IF orch.object.meeting_title # "" THEN orch.object.meeting_title
                  ELSE FallbackTitle(d)
            /\ \A f \in BodyFields :
                  Len(orch.object[f]) > PreviewLen
                      => /\ Len(orch.pages[d].body[f]) = Len(orch.object[f])
                         /\ Len(Preview(orch.object[f])) = PreviewLen + 3

\* A run has published, to the three destinations, a summary whose every
\* field is longer than the preview.
C26_Witness ==
    /\ Published
    /\ orch.created = Destinations
    /\ orch.object = LongSummary
    /\ \A f \in BodyFields : Len(orch.pages[2].body[f]) > PreviewLen
    /\ orch.pages[2].title = LongText("meeting_title")

\* A run has published a summary with an empty title under the fallback
\* title.
EmptyTitleReplaced ==
    /\ Published
    /\ 1 \in orch.created
    /\ orch.object.meeting_title = ""
    /\ orch.pages[1].title = "acmeSAMA DATE_UNKNOWN"

----------------------------------------------------------------------------
(* The orchestrator under the dates of the direct-upload ingress *)

\* Texts with a date a calendar has, with one it has not, and with none.
DatedTexts ==
    {TypicalText, DateText("marks", TRUE, "12", "7"),
     DateText("slashes", FALSE, "13", "45"), "hello"}

NextDates ==
    \/ \E hasFile, storageOk \in BOOLEAN, text \in DatedTexts :
          SlackIntakePOST(hasFile, storageOk, text)
    \/ \E t \in TaskIds : OrchInvoke(t)
    \/ \E taskError \in BOOLEAN : OrchLookup(taskError)
    \/ OrchMarkProcessing
    \/ OrchDownload(TRUE)
    \/ OrchTranscribe(TRUE)
    \/ \E response \in {"json", "null"} : OrchSummarize(response, TypicalSummary)
    \/ \E created \in {Destinations, {2}} : OrchPublish(created)
    \/ OrchNotifySuccess("configured_accepting")
    \/ OrchRecordFailure
    \/ OrchNotifyFailure("configured_accepting")

SpecDates == Init /\ [][NextDates]_vars

----------------------------------------------------------------------------
(* Claims on the meeting date *)

\* d is a date YYYY-MM-DD of four and twice two digits, with a month of
\* 01..12 and a day of 01..31.
WellFormed(d) ==
    /\ Len(d) = 10
    /\ \A i \in {1, 2, 3, 4, 6, 7, 9, 10} : CharAt(d, i) \in Digits
    /\ CharAt(d, 5) = "-" /\ CharAt(d, 8) = "-"
    /\ parseInt(SubSeq(d, 6, 7)) \in 1..12
    /\ parseInt(SubSeq(d, 9, 10)) \in 1..31

\* C27 (as claimed): a meeting_date the ingress stored as a well-formed
\* YYYY-MM-DD string is re-normalized by the orchestrator's first step to
\* the same value, and is the date of every destination record of the run.
C27_NormalizationIdempotent ==
    (Published /\ WellFormed(rows[orch.task].meeting_date))
        => /\ orch.meetingDate = rows[orch.task].meeting_date
           /\ \A d \in orch.created : orch.pages[d].date = rows[orch.task].meeting_date

\* What the orchestrator does: whatever date the ingress stored, no run
\* gives a destination a date.
DateDroppedFromEveryPage ==
    Published => /\ orch.meetingDate = Null
                 /\ \A d \in Destinations : orch.pages[d].date = Null

\* A run has published the task of a text with the date 2024/5/17 to the
\* three destinations, and no page has a date.
StoredDateDropped ==
    /\ Published
    /\ rows[orch.task].meeting_date = "2024-05-17"
    /\ orch.created = Destinations
    /\ \A d \in Destinations : orch.pages[d].date = Null

\* C28 (as claimed): every meeting_date stored at ingress is a well-formed
\* YYYY-MM-DD date; a text whose date does not normalize to one (a month
\* 13, a day 45) leaves the field absent.
C28_StoredDatesWellFormed ==
    \A t \in TaskIds :
        rows[t] # NoRow => rows[t].meeting_date = Null \/ WellFormed(rows[t].meeting_date)

\* What holds of C28: a stored meeting_date has the shape NNNN-NN-NN.
StoredDatesShaped ==
    \A t \in TaskIds :
        (rows[t] # NoRow /\ rows[t].meeting_date # Null)
            => /\ Len(rows[t].meeting_date) = 10
               /\ \A i \in {1, 2, 3, 4, 6, 7, 9, 10} : CharAt(rows[t].meeting_date, i) \in Digits

\* The Ingress Adapter has stored the date of the text "2024/13/45".
InvalidDateStored ==
    /\ lastReq = TextRequest(DateText("slashes", FALSE, "13", "45"))
    /\ lastResp.status = 202
    /\ rows[lastResp.taskId].meeting_date = "2024-13-45"

----------------------------------------------------------------------------
(* Claims on error_message and processed_at *)

\* C29 (as claimed): a task that is uploaded or completed has a null
\* error_message, whatever failure was recorded on it before: the stage
\* that succeeds clears the message.
C29_SuccessClearsError ==
    \A t \in TaskIds :
        rows[t].status \in {"uploaded", "completed"} => rows[t].error_message = Null

\* What holds of C29: the Transfer Stage's 'uploaded' clears the message.
UploadedClearsError ==
    \A t \in TaskIds : rows[t].status = "uploaded" => rows[t].error_message = Null

\* A run on a task whose earlier run failed has completed the task, and the
\* task still has the message of the failure.
CompletedWithOldError ==
    /\ orch.pc = "done" /\ orch.resp = 200
    /\ orch.before.status = "failed_in_vercel"
    /\ rows[orch.task].status = "completed"
    /\ rows[orch.task].error_message = orch.before.error_message
    /\ rows[orch.task].error_message # Null

\* processed_at of a row, null for a task that has none
ProcessedAt(row) == IF row = NoRow THEN Null ELSE row.processed_at

\* An update that changes processed_at of task t sets its status completed.
WrittenWithCompleted(t) ==
    ProcessedAt(rows'[t]) # ProcessedAt(rows[t]) => rows'[t].status = "completed"

\* C30 (as claimed): processed_at is written only by the update that sets
\* the status completed, and a task with a non-null processed_at has the
\* status completed.
C30_ProcessedAtMarksCompleted ==
    [][\A t \in TaskIds :
          /\ WrittenWithCompleted(t)
          /\ ProcessedAt(rows'[t]) # Null => rows'[t].status = "completed"]_vars

\* What holds of C30: processed_at is written only with completed.
ProcessedAtWrittenWithCompleted == [][\A t \in TaskIds : WrittenWithCompleted(t)]_vars

\* The trigger function has written webhook_sent over a completed task,
\* whose processed_at stays.
ProcessedButNotCompleted ==
    \E t \in TaskIds :
        /\ rows[t].status = "webhook_sent"
        /\ ProcessedAt(rows[t]) # Null
        /\ pvt.pc = "done" /\ pvt.task = t


-----------------------------------------------------------------------------
(* C31: the page ids the completed update stores *)

\* The ids of the created destinations from d on, each after a comma when
\* ids came before it.
RECURSIVE IdsInOrder(_, _, _)
IdsInOrder(d, created, before) ==
    IF d > 3 THEN before
    ELSE IF d \notin created THEN IdsInOrder(d + 1, created, before)
    ELSE IdsInOrder(d + 1, created,
                    IF before = "" THEN PageIdOf(d) ELSE before \o "," \o PageIdOf(d))

\* The run in flight has written completed.
ReachedCompleted == orch.pc = "notify" \/ (orch.pc = "done" /\ orch.okNotes = 1)

\* C31: after a run that reaches completed, notion_page_id is the
\* comma-joined list of the ids of exactly the destinations whose page was
\* created in that run, in the order 1, 2, 3, and null when none was.
C31_PageIdsOfCreated ==
    ReachedCompleted =>
        rows[orch.task].notion_page_id =
            IF orch.created = {} THEN Null ELSE IdsInOrder(1, orch.created, "")

\* A run that created the pages of destinations 1 and 3 only, and one that
\* created none, have written completed.
C31_Witness ==
    /\ ReachedCompleted
    /\ orch.created = {1, 3}
    /\ rows[orch.task].notion_page_id = "page-a,page-c"

C31_NoneCreated ==
    /\ ReachedCompleted
    /\ orch.created = {}
    /\ rows[orch.task].notion_page_id = Null


-----------------------------------------------------------------------------
(* C32: the summary preview of a success notification *)

\* The messages one task may be posted in a behaviour
MaxPosts == 3

\* A text of n characters whose characters from the 300th on all differ
SummaryText(n) ==
    IF n < PreviewLen THEN Repeated("a", n)
    ELSE Repeated("a", PreviewLen - 1) \o SubSeq("bcdefghijklmnopqrstuvwxyz", 1, n - PreviewLen + 1)

SummaryTexts ==
    {"", "short summary", SummaryText(PreviewLen - 1), SummaryText(PreviewLen),
     SummaryText(PreviewLen + 1), SummaryText(LongLen)}

\* The bodies posted to the adapter: success notifications with and without
\* a summary text, failure notifications, other statuses, and bodies without
\* task_id, as the orchestrator's.
NotifyBodies ==
    {[task_id |-> t, status |-> "completed", original_file_name |-> "file",
      summary_text |-> s] : t \in TaskIds, s \in SummaryTexts}
    \cup {[task_id |-> t, status |-> "completed", storage_summary_path |-> "summaries/s.txt",
           notion_page_url |-> "https://notion/page"] : t \in TaskIds}
    \cup {[task_id |-> t, status |-> "failed", error_message |-> "Whisper API request failed"] :
              t \in TaskIds}
    \cup {[task_id |-> t, status |-> "processing"] : t \in TaskIds}
    \cup {[status |-> "completed", summary_text |-> "short summary"],
          SuccessPayload(1, "page-a"), FailurePayload(1, "Whisper API request failed")}

\* POST /api/slack/notify with the given body
NotifyRequest(body, env) ==
    /\ \A t \in TaskIds : posted[t] < MaxPosts
    /\ posted' = Posted(NotifyPOST(body, env))
    /\ channel' = Channel(NotifyPOST(body, env))
    /\ UNCHANGED <<rows, objects, nextId, netQueue, lastReq, lastResp, reqTick,
                   xfer, xferRuns, pvt, orch, storeUp>>

NextNotify == \E body \in NotifyBodies, env \in NotifyEnvs : NotifyRequest(body, env)

SpecNotify == Init /\ [][NextNotify]_vars

\* The text t stands somewhere in the message m.
Contains(m, t) ==
    \E i \in 1..(Len(m) - Len(t) + 1) : SubSeq(m, i, i + Len(t) - 1) = t

\* The message shows the summary text s: in full and without ellipsis when
\* it has at most 300 characters, otherwise its first 300 characters and
\* '...' directly after them.
SummaryShown(m, s) ==
    IF Len(s) <= 300
    THEN Contains(m, s) /\ ~Contains(m, "...")
    ELSE /\ Contains(m, SubSeq(s, 1, 300) \o "...")
         /\ ~Contains(m, SubSeq(s, 1, 301))

CarriesSummary(body) ==
    /\ DOMAIN body = {"task_id", "status", "original_file_name", "summary_text"}
    /\ body.status = "completed"

\* C32: for a success notification carrying summary_text s, the posted
\* message contains s in full with no ellipsis when s has at most 300
\* characters, and exactly the first 300 characters of s followed by '...'
\* when it has more.
C32_PreviewOfSummary ==
    [][\A body \in NotifyBodies :
          (CarriesSummary(body) /\ NotifyRequest(body, "configured_accepting"))
              => SummaryShown(channel', body.summary_text)]_vars

\* A summary of 301 characters has been posted cut after its 300th, and one
\* of 300 characters whole.
C32_Witness ==
    /\ posted[1] = 1
    /\ Contains(channel, "SUMMARY:\n" \o SummaryText(300) \o "...\n")

C32_WholeAt300 ==
    /\ posted[1] = 1
    /\ Contains(channel, "SUMMARY:\n" \o SummaryText(300) \o "\n")


-----------------------------------------------------------------------------
(* C33: the storage key of the Transfer Stage *)

\* The mimetype and filetype of the payloads: video and audio types, other
\* types with their declared filetype, a filetype that differs from the
\* subtype, and a payload without filetype.
PayloadTypes ==
    {<<<<"video", "mp4">>, "mp4">>, <<<<"video", "quicktime">>, "mov">>,
     <<<<"video", "webm">>, "mp4">>, <<<<"audio", "mpeg">>, "mp3">>,
     <<<<"audio", "wav">>, "wav">>, <<<<"application", "octet-stream">>, "bin">>,
     <<<<"application", "octet-stream">>, "quicktime">>, <<<<"video", "mp4">>, Null>>}

TransferPayloads ==
    {[taskId |-> t, mimetype |-> mf[1], filetype |-> mf[2]] : t \in TaskIds, mf \in PayloadTypes}

\* An invocation with a payload of the caller's: the handler answers 400 to
\* a payload that lacks a field, before any download.
TransferRequest(payload) ==
    /\ xfer.pc \in {"idle", "done"}
    /\ xferRuns[payload.taskId] < MaxTransferRuns
    /\ xfer' = IF payload.mimetype = <<>> \/ payload.filetype = Null
               THEN [XferIdle EXCEPT !.pc = "done", !.task = payload.taskId, !.resp = 400]
               ELSE [XferIdle EXCEPT !.pc = "fetch", !.task = payload.taskId,
                                     !.mimetype = payload.mimetype,
                                     !.filetype = payload.filetype]
    /\ xferRuns' = [xferRuns EXCEPT ![payload.taskId] = @ + 1]
    /\ UNCHANGED <<rows, objects, nextId, netQueue, lastReq, lastResp, reqTick,
                   pvt, orch, posted, channel, storeUp>>

NextKeys ==
    \/ \E payload \in TransferPayloads : TransferRequest(payload)
    \/ \E outcome \in {"ok", "refused", "throws"} : TransferFetch(outcome)
    \/ \E serviceOk \in BOOLEAN : TransferUpload(serviceOk)
    \/ TransferWriteUploaded

SpecKeys == Init /\ [][NextKeys]_vars

\* The extension as claimed: the subtype for video and audio, quicktime
\* read as mov and audio/mpeg as mp3, the declared filetype otherwise.
ClaimedExtension(mimetype, filetype) ==
    IF mimetype[1] \in {"video", "audio"}
    THEN (IF mimetype[2] = "quicktime" THEN "mov"
          ELSE IF mimetype = <<"audio", "mpeg">> THEN "mp3"
          ELSE mimetype[2])
    ELSE filetype

\* The same, a declared filetype quicktime read as mov too.
NormalizedExtension(mimetype, filetype) ==
    IF ClaimedExtension(mimetype, filetype) = "quicktime" THEN "mov"
    ELSE ClaimedExtension(mimetype, filetype)

\* No payload of another task has the key of the run in flight.
KeyOfNoOtherTask ==
    \A p \in TransferPayloads :
        (p.taskId # xfer.task /\ p.filetype # Null)
            => StoragePath(p.taskId, p.mimetype, p.filetype) # xfer.storagePath

\* C33 (as claimed): the key of a Transfer run is uploads/<taskId>.<ext> of
\* its payload alone, ext being the mimetype's subtype for video and audio
\* (quicktime as mov, audio/mpeg as mp3) and the declared filetype
\* otherwise; runs for different task ids never have the same key.
C33_KeyOfPayload ==
    xfer.storagePath # NoPath =>
        /\ xfer.storagePath = "uploads/" \o ToString(xfer.task) \o "."
                                  \o ClaimedExtension(xfer.mimetype, xfer.filetype)
        /\ KeyOfNoOtherTask

\* C33 (amended): the same, with quicktime read as mov wherever the
\* extension comes from, a declared filetype included.
C33_KeyOfPayloadNormalized ==
    xfer.storagePath # NoPath =>
        /\ xfer.storagePath = "uploads/" \o ToString(xfer.task) \o "."
                                  \o NormalizedExtension(xfer.mimetype, xfer.filetype)
        /\ KeyOfNoOtherTask

\* Runs for both tasks with an audio/mpeg payload have stored their objects.
C33_Witness ==
    /\ xfer.pc = "done" /\ xfer.resp = 200
    /\ xfer.mimetype = <<"audio", "mpeg">>
    /\ {"uploads/1.mp3", "uploads/2.mp3"} \subseteq objects

\* A payload of another type that declares the filetype quicktime is stored
\* under .mov.
DeclaredQuicktimeStoredAsMov ==
    /\ xfer.mimetype = <<"application", "octet-stream">>
    /\ xfer.filetype = "quicktime"
    /\ xfer.storagePath = "uploads/1.mov"
    /\ xfer.storagePath \in objects


-----------------------------------------------------------------------------
(* C34: an error response to a known task id is recorded on the task *)

\* The row of task t holds a failure status and an error_message.
FailureOnTask(table, t) ==
    /\ table[t] # NoRow
    /\ table[t].status \in FailureStatus
    /\ table[t].error_message # Null

\* An invocation that was given a task id ends with an error response.
TransferEndsInError == xfer.pc # "done" /\ xfer'.pc = "done" /\ xfer'.resp >= 400
TriggerEndsInError == pvt.pc # "done" /\ pvt'.pc = "done" /\ pvt'.resp >= 400
OrchEndsInError == orch.pc # "done" /\ orch'.pc = "done" /\ orch'.resp >= 400

\* C34: whenever an invocation of the Transfer Stage, the trigger function
\* or the Processing Orchestrator that received a task id ends with an
\* error response, the task holds a failure status with an error_message
\* written by that invocation.
C34_ErrorResponseRecorded ==
    [][/\ TransferEndsInError => FailureOnTask(rows', xfer'.task)
       /\ TriggerEndsInError => FailureOnTask(rows', pvt'.task)
       /\ OrchEndsInError => FailureOnTask(rows', orch'.task)]_vars

\* The trigger function has answered 500 for a row without storage_path,
\* and the row is as the ingress left it.
TriggerErrorUnrecorded ==
    /\ pvt.pc = "done" /\ pvt.resp = 500
    /\ pvt.msg = "Record ID or storage_path missing in payload"
    /\ rows[pvt.task].status = "upload_pending"
    /\ rows[pvt.task].error_message = Null

\* The same for the failures the components do record: the Transfer Stage's
\* and the orchestrator's within a run, the trigger function's after its
\* table client exists.
RecordedWhereHandled ==
    [][/\ TransferEndsInError => FailureOnTask(rows', xfer'.task)
       /\ (TriggerEndsInError /\ pvt.pc = "catch") => FailureOnTask(rows', pvt'.task)]_vars


-----------------------------------------------------------------------------
(* C36: the writes of the pipeline and the constraints of the table *)

\* CONSTRAINT transcription_tasks_status_check
transcription_tasks_status_check(status) ==
    status \in {"pending", "processing", "completed", "failed"}

\* "storage_path" text NOT NULL
storage_path_not_null(row) == row.storage_path # NoPath

\* The table as migrated accepts the row.
SatisfiesConstraints(row) ==
    /\ transcription_tasks_status_check(row.status)
    /\ storage_path_not_null(row)

\* C36: every row insert and status update that a component issues
\* satisfies the constraints of the persisted table (status within the set
\* of the check constraint, storage_path not null), so that no write of the
\* normal flow is rejected by the store.
C36_WritesSatisfyConstraints ==
    [][\A t \in TaskIds :
          (rows'[t] # rows[t] /\ (rows[t] = NoRow \/ rows'[t].status # rows[t].status))
              => SatisfiesConstraints(rows'[t])]_vars

\* The writes of the normal flow of the direct-upload ingress: the insert
\* with status uploaded, and the orchestrator's update to
\* processing_in_vercel.
InsertOutsideCheck ==
    \E t \in TaskIds :
        /\ rows[t] # NoRow
        /\ rows[t].status = "uploaded"
        /\ rows[t].storage_path = IntakePath(t)
        /\ ~transcription_tasks_status_check(rows[t].status)

UpdateOutsideCheck ==
    /\ orch.pc = "download"
    /\ rows[orch.task].status = "processing_in_vercel"
    /\ ~SatisfiesConstraints(rows[orch.task])


-----------------------------------------------------------------------------
(* C35: a failure is handled once *)

\* A step of the trigger function records a failure status on its task.
TriggerFailureWrite ==
    /\ pvt' # pvt
    /\ rows'[pvt'.task] # rows[pvt'.task]
    /\ rows'[pvt'.task].status \in FailureStatus

\* The step leaves upload_failed and its message on the Transfer Stage's task.
TransferFailureWritten ==
    /\ rows'[xfer.task].status = "upload_failed"
    /\ rows'[xfer.task].error_message \in
           {m.error_message : m \in {DownloadFailedPayload, UploadFailedPayload, UnexpectedPayload}}

\* The trigger function's invocation in flight has recorded a failure
\* already: webhook_failed is the status of its branch on the response.
TriggerHasRecorded == rows[pvt.task].status = "webhook_failed"

\* C35: in any single failing invocation of a component the failure is
\* handled exactly once: exactly one write records the failure status, the
\* persisted error_message is the detail of the original failure, and
\* exactly one failure notification is emitted.
C35_FailureHandledOnce ==
    [][/\ TriggerFailureWrite
              => /\ ~TriggerHasRecorded
                 /\ pvt'.pc = "done"
       /\ OrchEndsInError
              => /\ orch'.failNotes = 1
                 /\ rows'[orch'.task].error_message = orch'.errorMessage
       /\ TransferEndsInError => TransferFailureWritten]_vars

\* The trigger function has ended an invocation in which it recorded
\* webhook_failed with the response's detail and then function_error with
\* the message of the error it threw.
FailureRecordedTwice ==
    /\ pvt.pc = "done" /\ pvt.resp = 500
    /\ pvt.msg = "Vercel webhook notification failed"
    /\ rows[pvt.task].status = "function_error"
    /\ rows[pvt.task].error_message = "Vercel webhook notification failed"

\* The same for the orchestrator and the Transfer Stage alone, whose
\* failing invocations write the failure once.
OrchAndTransferRecordOnce ==
    [][/\ OrchEndsInError
              => /\ orch'.failNotes = 1
                 /\ rows'[orch'.task].error_message = orch'.errorMessage
       /\ TransferEndsInError => TransferFailureWritten]_vars


-----------------------------------------------------------------------------
(* C37: the notifications of one orchestrator run *)

\* The notifySlack calls of the run in flight
NotificationsSent(o) == o.okNotes + o.failNotes

\* C37: in any single run of the orchestrator at most one notification is
\* sent in total; a success notification is sent only after the status
\* completed has been written; no run sends both a success and a failure
\* notification.
C37_AtMostOneNotification ==
    [][/\ NotificationsSent(orch') <= 1
       /\ ~(orch'.okNotes >= 1 /\ orch'.failNotes >= 1)
       /\ orch'.okNotes > orch.okNotes => orch.pc = "notify"
       /\ (orch'.pc = "notify" /\ orch.pc # "notify")
              => rows'[orch'.task].status = "completed"]_vars

\* A run has ended with its one success notification sent after completed,
\* and a run with its one failure notification.
C37_Witness ==
    /\ orch.pc = "done" /\ orch.resp = 200
    /\ orch.okNotes = 1 /\ orch.failNotes = 0
    /\ rows[orch.task].status = "completed"

C37_FailureNotifiedOnce ==
    /\ orch.pc = "done" /\ orch.resp = 500
    /\ orch.okNotes = 0 /\ orch.failNotes = 1
    /\ rows[orch.task].status = "failed_in_vercel"


-----------------------------------------------------------------------------
(* C38: what summary_result holds *)

\* The serializations of the objects that hold the six summary fields
SixFieldSerializations == {JSONStringify(object) : object \in SummaryObjects \cup {TypicalSummary}}

\* C38: whenever summary_result is non-null it is the serialization of an
\* object that holds all six summary fields; an answer of the summarization
\* service that is valid JSON and not such an object is treated as a
\* failure and never stored as summary_result.
C38_SummaryResultHasSixFields ==
    \A t \in TaskIds :
        (rows[t] # NoRow /\ rows[t].summary_result # Null)
            => rows[t].summary_result \in SixFieldSerializations

\* The answer null of the summarization service has been stored as
\* summary_result, the step having succeeded.
NullSummaryStored ==
    /\ orch.pc = "publish"
    /\ orch.response = "null"
    /\ rows[orch.task].status = "summarized_in_vercel"
    /\ rows[orch.task].summary_result = "'null'"

\* The same for the answers that are JSON objects.
ObjectSummaryStored ==
    \A t \in TaskIds :
        (rows[t] # NoRow /\ rows[t].summary_result # Null /\ rows[t].summary_result # "'null'")
            => rows[t].summary_result \in SixFieldSerializations


-----------------------------------------------------------------------------
(* C39: the objects of the direct-upload ingress and their rows *)

\* The trigger chain, with requests whose insert the table rejects.
NextOrphan ==
    \/ TriggerChain
    \/ SlackIntakePOSTRejected(TypicalText)

SpecOrphan == Init /\ [][NextOrphan]_vars

\* A row's storage_path names the object.
Referenced(key) == \E t \in TaskIds : rows[t] # NoRow /\ rows[t].storage_path = key

\* C39: every object an ingestion path writes to storage is referenced by a
\* row: an insert that fails after the file was uploaded leaves no stored
\* object without a row whose storage_path names it.
C39_EveryObjectReferenced == \A key \in objects : Referenced(key)

\* An object is stored that no row names.
OrphanObject ==
    /\ RejectedPath(1) \in objects
    /\ ~Referenced(RejectedPath(1))
    /\ rows[1] = NoRow


-----------------------------------------------------------------------------
(* C40: a stored object is not written over *)

\* The storage write of a run whose key is the key of a stored object
UploadToExistingKey ==
    /\ xfer.pc = "upload" /\ xfer'.pc # "upload"
    /\ xfer.storagePath \in objects

\* C40: stored source objects are never overwritten: a run of the Transfer
\* Stage whose storage key already exists fails at the storage write and
\* leaves the stored object and the task's storage_path unchanged.
C40_ExistingObjectKept ==
    [][UploadToExistingKey =>
          /\ objects' = objects
          /\ xfer'.pc = "done" /\ xfer'.resp = 500
          /\ rows'[xfer.task].status = "upload_failed"
          /\ rows'[xfer.task].error_message = "Supabase Storage upload failed"
          /\ rows'[xfer.task].storage_path = rows[xfer.task].storage_path]_vars

\* A second run for a task that was transferred has failed at the storage
\* write, the object and the path of the first run in place.
C40_Witness ==
    /\ xfer.pc = "done" /\ xfer.resp = 500
    /\ xferRuns[xfer.task] = 2
    /\ xfer.storagePath \in objects
    /\ rows[xfer.task].storage_path = xfer.storagePath
    /\ rows[xfer.task].status = "upload_failed"
    /\ rows[xfer.task].error_message = "Supabase Storage upload failed"

====
